---- MODULE Spec2Model ----
\* Model of the darts solver core: the game transition layer (Game.cpp), the
\* memoized min-throws dynamic program, the greedy solver and the heat map
\* (Solver.cpp).  Probabilities are exact rationals in units of 1/Denom, scores
\* are exact rationals; unsigned int / int keep a (scaled) width of StateBits.
EXTENDS Integers, Sequences, FiniteSets, TLC

\* ---------------------------------------------------------------- bounds

\* Width, in bits, of Game::State (unsigned int) and Game::StateDifference (int).
StateBits == 3

\* Probability masses returned by the integrator are multiples of 1/Denom.
Denom == 2

\* The finer resolution of the runs with masses near EPSILON: 1/TinyDenom is
\* above EPSILON and TinyDenom is below INFINITE_SCORE.
TinyDenom == 600000000

\* The resolution of the runs that compare the two games: masses there are
\* multiples of 1/FineDenom.
FineDenom == 3

\* Largest coordinate of the vertices and points of the geometry runs.
MaxCoord == 2

\* The largest configured sample count of the runs that enumerate the aims.
MaxSamples == 9

\* Largest state handed to solve / solve_aim / heat_map by a caller.
MaxState == 3

\* ------------------------------------------------------- program constants

\* SolverMinThrows::EPSILON = 1e-9, as the denominator of 1/10^9.
EPSILON_INV == 1000000000

\* SolverMinThrows::INFINITE_SCORE = 1e9.
INFINITE_SCORE == 1000000000

\* MaxPointsSolver::LOWEST_SCORE = 0.0
LOWEST_SCORE == 0

\* Target::MISS_STATE_DIFF_.
MISS_STATE_DIFF_ == 0

\* Solver::num_samples_, the constructor argument of the solvers modelled.
NumSamples == 2

\* ------------------------------------------------------ machine integers

StateMod == 2 ^ StateBits

IntMax == 2 ^ (StateBits - 1) - 1

IntMin == -(2 ^ (StateBits - 1))

\* Game::State
State == 0 .. (StateMod - 1)

\* Game::StateDifference
StateDifference == IntMin .. IntMax

\* static_cast<StateDifference>(current_state): modular conversion to int.
ToInt(u) == IF u > IntMax THEN u - StateMod ELSE u

\* Conversion of a mathematical integer to unsigned int (mod 2^w), as in
\* current_state + hit_data.diff, which is computed in unsigned arithmetic.
ToUnsigned(x) == x % StateMod

\* Two's complement wrap of a mathematical integer into int.
WrapInt(x) == ToInt(x % StateMod)

\* The value of the int expression a + b.  Signed overflow is undefined
\* behaviour: a build either wraps (ub = "wrap") or reasons with the exact sum
\* (ub = "exact"); without overflow both agree.
UBChoices == {"wrap", "exact"}

SignedAdd(a, b, ub) ==
    IF a + b \in StateDifference THEN a + b
    ELSE IF ub = "wrap" THEN WrapInt(a + b) ELSE a + b

\* --------------------------------------------------------------- rationals

RECURSIVE Gcd(_, _)
Gcd(a, b) == IF b = 0 THEN a ELSE Gcd(b, a % b)

Abs(x) == IF x < 0 THEN -x ELSE x

\* The rational n/d (d > 0) in lowest terms.
Rat(n, d) ==
    LET g == Gcd(Abs(n), d)
    IN  [n |-> n \div g, d |-> d \div g]

RZero == [n |-> 0, d |-> 1]

ROne == [n |-> 1, d |-> 1]

RInt(k) == [n |-> k, d |-> 1]

\* a + b over the least common denominator.
RAdd(a, b) ==
    LET g == Gcd(a.d, b.d)
    IN  Rat(a.n * (b.d \div g) + b.n * (a.d \div g), (a.d \div g) * b.d)

\* The sum of a sequence of rationals.
RECURSIVE RSum(_)
RSum(terms) == IF terms = <<>> THEN RZero ELSE RAdd(Head(terms), RSum(Tail(terms)))

RNeg(a) == [n |-> -a.n, d |-> a.d]

RSub(a, b) == RAdd(a, RNeg(b))

\* a * b, cancelling across before multiplying.
RMul(a, b) ==
    LET g == Gcd(Abs(a.n), b.d)
        h == Gcd(Abs(b.n), a.d)
    IN  [n |-> (a.n \div g) * (b.n \div h), d |-> (a.d \div h) * (b.d \div g)]

\* a / b for b > 0.
RDiv(a, b) == RMul(a, [n |-> b.d, d |-> b.n])

\* n/d < m/e for n, m >= 0 and d, e > 0, by comparing integer parts and then
\* the reciprocals of the fractional parts (no product is formed).
RECURSIVE FracLess(_, _, _, _)
FracLess(n, d, m, e) ==
    LET fa == n \div d
        fb == m \div e
        ra == n % d
        rb == m % e
    IN  IF fa # fb THEN fa < fb
        ELSE IF rb = 0 THEN FALSE
        ELSE IF ra = 0 THEN TRUE
        ELSE FracLess(e, rb, d, ra)

\* a < b
RLess(a, b) ==
    IF a.n < 0 /\ b.n >= 0 THEN TRUE
    ELSE IF a.n >= 0 /\ b.n < 0 THEN FALSE
    ELSE IF a.n < 0 THEN FracLess(-b.n, b.d, -a.n, a.d)
    ELSE FracLess(a.n, a.d, b.n, b.d)

RLeq(a, b) == ~RLess(b, a)

EPSILON == Rat(1, EPSILON_INV)

RInfinite == RInt(INFINITE_SCORE)

\* ----------------------------------------------------------------- HitData

NORMAL == 0

DOUBLE == 1

TREBLE == 2

HitTypes == {NORMAL, DOUBLE, TREBLE}

HitData(type, diff) == [type |-> type, diff |-> diff]

\* HitData::operator<
HitLess(a, b) ==
    IF a.type # b.type THEN a.type < b.type ELSE a.diff < b.diff

\* The miss outcome, HitData(Type::NORMAL, MISS_STATE_DIFF_).
Miss == HitData(NORMAL, MISS_STATE_DIFF_)

\* --------------------------------------------------------------- geometry

\* Vec2, with integer coordinates.
Vec2(x, y) == <<x, y>>

Origin == Vec2(0, 0)

\* Side of the square target bounds; a multiple of twice every grid size used
\* so that the cell centres are lattice points.
BoundsSpan == 12

\* Game::Bounds of the modelled targets (Game::get_target_bounds): a box that
\* does not contain the origin.
BoundsChoices ==
    {[min |-> Vec2(BoundsSpan, BoundsSpan),
      max |-> Vec2(2 * BoundsSpan, 2 * BoundsSpan)]}

\* static_cast<size_t>(std::sqrt(n))
Isqrt(n) == CHOOSE k \in 0 .. n : k * k <= n /\ (k + 1) * (k + 1) > n

\* A cell centre that is one cell too far.
CellCentreNextCell(lo, hi, i, cells) == lo + ((hi - lo) * (2 * i + 3)) \div (2 * cells)

\* min + (max - min) * (i + 0.5) / cells
CellCentre(lo, hi, i, cells) == lo + ((hi - lo) * (2 * i + 1)) \div (2 * cells)

\* Solver::sample_aims_: the aims in the order the loops produce them, the
\* outer loop over i (x), the inner loop over j (y). With height_samples = 0
\* the quotient is undefined; a run that goes on past it produces no aim,
\* whatever the quotient, since the inner loop is empty.
SampleAims(bounds, num_samples) ==
    LET height_samples == Isqrt(num_samples)
        width_samples == IF height_samples = 0 THEN 0 ELSE num_samples \div height_samples
    IN  [n \in 1 .. (width_samples * height_samples) |->
            LET i == (n - 1) \div height_samples
                j == (n - 1) % height_samples
            IN  Vec2(CellCentre(bounds.min[1], bounds.max[1], i, width_samples),
                     CellCentre(bounds.min[2], bounds.max[2], j, height_samples))]

\* HeatMapVisualizer grid_height_, grid_width_ of the modelled visualizer.
GridHeight == 1

GridWidth == 1

\* The rows of the visualizer of the runs that look at the rows' order.
RowsGridHeight == 2

VARIABLES
    num_samples_,     \* Solver::num_samples_
    grid_height_,     \* HeatMapVisualizer::grid_height_
    grid_width_       \* HeatMapVisualizer::grid_width_

\* The aim of heat map cell (column i, row j), as heat_map computes it.
HeatMapAim(bounds, i, j) ==
    Vec2(CellCentre(bounds.min[1], bounds.max[1], i, grid_width_),
         CellCentre(bounds.min[2], bounds.max[2], j, grid_height_))

Range(f) == {f[x] : x \in DOMAIN f}

\* The sum of f over the finite set S.
RECURSIVE SumOver(_, _)
SumOver(f, S) ==
    IF S = {} THEN 0
    ELSE LET x == CHOOSE y \in S : TRUE IN f[x] + SumOver(f, S \ {x})

\* The aims of the solver's grid.
GridAims(bounds) == Range(SampleAims(bounds, num_samples_))

\* The centres of the heat map's cells.
HeatMapAims(bounds) ==
    {HeatMapAim(bounds, i, j) : i \in 0 .. (grid_width_ - 1), j \in 0 .. (grid_height_ - 1)}

\* The aims of the solver's grid and of the heat map's cells.
AllAims(bounds) == GridAims(bounds) \cup HeatMapAims(bounds)

\* The aim a caller of the game passes in the game runs.
GameAims(bounds) == {SampleAims(bounds, num_samples_)[1]}

\* ------------------------------------------------------------------- state

VARIABLES
    wasm,             \* wasm.js: the module-level variables of the wrapper and the
                      \* objects on the WASM heap they refer to
    vertices,         \* Polygon::vertices of the polygon of the geometry runs
    constructed,      \* whether the constructors of the game, the solver and the
                      \* visualizer have returned
    variant,          \* the Game subclass in use: "FinishOnAny" or "FinishOnDouble"
    target_,          \* Target::beds_: the beds' HitData, in iteration order
    target_bounds_,   \* Game::target_bounds_
    denom,            \* the resolution of the integrator: masses are multiples of 1/denom
    integ,            \* Distribution::integrate_probability(bed shape, aim), in units of 1/denom
    landing,          \* the law of the landing point sample() + aim over the regions cut
                      \* out by the beds' shapes, in units of 1/denom
    throw_at_cache_,  \* Game::throw_at_cache_: aim -> HitDistribution
    memoization_,     \* SolverMinThrows::memoization_: state -> (score, aim)
    winable_,         \* SolverMinThrows::winable_
    heat_map_memo_,   \* HeatMapVisualizer::heat_map_memo_: state -> grid
    stack,            \* the call stack: the frames of solve, solve_aim, heat_map in progress
    ret               \* the value the last completed call returned

vars ==
    <<wasm, vertices, constructed, variant, target_, target_bounds_, denom, integ, landing, num_samples_, grid_height_,
      grid_width_, throw_at_cache_, memoization_, winable_, heat_map_memo_, stack, ret>>

config ==
    <<wasm, vertices, constructed, variant, target_, target_bounds_, denom, integ, landing, num_samples_, grid_height_,
      grid_width_>>

solver_state == <<memoization_, winable_, heat_map_memo_>>

Variants == {"FinishOnAny", "FinishOnDouble"}

\* The probability of a mass of m units.
Prob(m) == Rat(m, denom)

\* --------------------------------------------------------------------- Game

\* The mass of the beds whose HitData is h: result[diff] += probability.
BedsMass(beds, masses, h) ==
    SumOver([b \in DOMAIN beds |-> IF beds[b] = h THEN masses[b] ELSE 0], DOMAIN beds)

\* A distribution whose miss entry does not receive the remainder 1 - total.
HitProbabilityNoRemainder(beds, masses, h) == BedsMass(beds, masses, h)

\* The probability the std::map of throw_at_distribution_ holds for key h once
\* every bed has been added and the miss entry has received 1 - total.
HitProbability(beds, masses, h) ==
    LET RECURSIVE Sum(_)
        Sum(b) ==
            IF b = 0 THEN 0
            ELSE Sum(b - 1) + (IF beds[b] = h THEN masses[b] ELSE 0)
        RECURSIVE Total(_)
        Total(b) == IF b = 0 THEN 0 ELSE Total(b - 1) + masses[b]
    IN  Sum(Len(beds)) + (IF h = Miss THEN denom - Total(Len(beds)) ELSE 0)

\* The keys of a std::map<HitData, double> in iteration order (HitData::operator<).
RECURSIVE SortedHits(_)
SortedHits(keys) ==
    IF keys = {} THEN <<>>
    ELSE LET least == CHOOSE h \in keys : \A g \in keys \ {h} : HitLess(h, g)
         IN  <<least>> \o SortedHits(keys \ {least})

\* A distribution kept as a list: one entry per bed in iteration order, then
\* the miss.
ComputeHitDistributionPerBed(beds, masses) ==
    [b \in 1 .. Len(beds) |-> <<beds[b], masses[b]>>]
        \o <<(<<Miss, denom - SumOver(masses, DOMAIN masses)>>)>>

\* Game::throw_at_distribution_, on a cache miss: the flattened map.
ComputeHitDistribution(beds, masses) ==
    LET keys == SortedHits(Range(beds) \cup {Miss})
    IN  [k \in 1 .. Len(keys) |-> <<keys[k], HitProbability(beds, masses, keys[k])>>]

\* A distribution that is computed afresh on every call.
ThrowAtDistributionUncached(cache, beds, masses, p) ==
    ComputeHitDistribution(beds, masses[p])

\* Game::throw_at_distribution_: the cached entry if there is one.
ThrowAtDistribution(cache, beds, masses, p) ==
    IF p \in DOMAIN cache THEN cache[p] ELSE ComputeHitDistribution(beds, masses[p])

\* The cache after throw_at_distribution_(p).
CacheAfter(cache, beds, masses, p) ==
    IF p \in DOMAIN cache THEN cache
    ELSE [q \in DOMAIN cache \cup {p} |->
            IF q = p THEN ComputeHitDistribution(beds, masses[p]) ELSE cache[q]]

\* handle_throw without the bust test: the unsigned sum is returned as it is.
FinishOnAnyHandleThrowNoBust(current_state, hit_data, ub) ==
    ToUnsigned(current_state + hit_data.diff)

\* A finish-on-any rule that accepts an exact finish on a treble only.
FinishOnAnyHandleThrowTrebleFinish(current_state, hit_data, ub) ==
    LET sum == SignedAdd(hit_data.diff, ToInt(current_state), ub)
    IN  IF sum < 0 \/ (sum = 0 /\ hit_data.type # TREBLE)
        THEN current_state
        ELSE ToUnsigned(current_state + hit_data.diff)

\* GameFinishOnAny::handle_throw
FinishOnAnyHandleThrow(current_state, hit_data, ub) ==
    IF SignedAdd(hit_data.diff, ToInt(current_state), ub) < 0
    THEN current_state
    ELSE ToUnsigned(current_state + hit_data.diff)

\* A finish-on-double rule that accepts an exact finish on any bed.
FinishOnDoubleHandleThrowAnyFinish(current_state, hit_data, ub) ==
    FinishOnAnyHandleThrow(current_state, hit_data, ub)

\* GameFinishOnDouble::handle_throw
FinishOnDoubleHandleThrow(current_state, hit_data, ub) ==
    LET sum == SignedAdd(hit_data.diff, ToInt(current_state), ub)
    IN  IF sum = 0
        THEN (IF hit_data.type = DOUBLE THEN 0 ELSE current_state)
        ELSE IF sum < 0 THEN current_state
        ELSE ToUnsigned(current_state + hit_data.diff)

\* The virtual dispatch on the game variant.
HandleThrow(v, current_state, hit_data, ub) ==
    IF v = "FinishOnAny"
    THEN FinishOnAnyHandleThrow(current_state, hit_data, ub)
    ELSE FinishOnDoubleHandleThrow(current_state, hit_data, ub)

\* GameFinishOnAny::throw_at / GameFinishOnDouble::throw_at: one entry per hit
\* of the hit distribution, in its order.
ThrowAtStates(v, diff_distribution, current_state, ub) ==
    [k \in 1 .. Len(diff_distribution) |->
        <<HandleThrow(v, current_state, diff_distribution[k][1], ub),
          diff_distribution[k][2]>>]

\* Target::after_hit: the HitData of the first bed containing the point, or the
\* miss; the landing point is the environment's choice.
AfterHitOutcomes(beds) == Range(beds) \cup {Miss}

\* ------------------------------------------------------------------ Solver

NoRet == [fn |-> "none"]

\* The frame of a call of SolverMinThrows::solve(s).
SolveFrame(s) ==
    [fn |-> "solve", s |-> s, pc |-> "enter", aims |-> <<>>, k |-> 1,
     best_score |-> <<RInfinite, Origin>>, is_winable |-> FALSE]

\* The frame of a call of SolverMinThrows::solve_aim(s, aim).
SolveAimFrame(s, aim) ==
    [fn |-> "solve_aim", s |-> s, aim |-> aim, pc |-> "enter", states |-> <<>>,
     k |-> 1, expected |-> RZero, same_state_prob |-> 0]

\* The frame of a call of HeatMapVisualizer::heat_map(s).
HeatMapFrame(s) ==
    [fn |-> "heat_map", s |-> s, pc |-> "enter", i |-> 0, j |-> 0,
     heat_map |-> [r \in 1 .. grid_height_ |-> [c \in 1 .. grid_width_ |-> RZero]]]

Top == stack[Len(stack)]

Running(fn, pc) == stack # <<>> /\ Top.fn = fn /\ Top.pc = pc

Push(frame) == Append(stack, frame)

Pop == SubSeq(stack, 1, Len(stack) - 1)

\* The stack with its top frame replaced.
SetTop(frame) == [stack EXCEPT ![Len(stack)] = frame]

\* The stack with its top frame replaced and a callee's frame pushed on it.
CallFrom(frame, callee) == Append(SetTop(frame), callee)

\* A comparison that also replaces the best aim on a tie.
ImprovesOrTies(score, best_score) == RLeq(score, best_score[1])

\* score < best_score.first (Solver.cpp line 70)
Improves(score, best_score) == RLess(score, best_score[1])

\* A winnable test that also accepts the sentinel itself.
IsFiniteOrSentinel(score) == RLeq(score, RInfinite)

\* score < INFINITE_SCORE (Solver.cpp line 73)
IsFinite(score) == RLess(score, RInfinite)

\* same_state_prob >= 1.0 - EPSILON (Solver.cpp line 46)
CannotEscape(same_state_prob) == RLeq(RSub(ROne, EPSILON), Prob(same_state_prob))

\* A test that takes no successor for the state itself.
SameStateNever(state, s) == FALSE

\* state == s (Solver.cpp line 32)
SameState(state, s) == state = s

\* A result that leaves out the division by the escape probability.
SolveAimResultUnnormalised(expected, same_state_prob) ==
    IF CannotEscape(same_state_prob) THEN RInfinite ELSE RAdd(expected, ROne)

\* The value solve_aim returns once its loop is over (Solver.cpp lines 46-52).
SolveAimResult(expected, same_state_prob) ==
    IF CannotEscape(same_state_prob) THEN RInfinite
    ELSE RDiv(RAdd(expected, ROne), RSub(ROne, Prob(same_state_prob)))

\* A store that keeps only the newest entry.
MemoizeOnlyLast(memo, s, best_score) == [t \in {s} |-> best_score]

\* A store that keeps INFINITE_SCORE at the origin for every state.
MemoizeInfinite(memo, s, best_score) ==
    [t \in DOMAIN memo \cup {s} |-> IF t = s THEN <<RInfinite, Origin>> ELSE memo[t]]

\* A store that is never written.
MemoizeNothing(memo, s, best_score) == memo

\* memoization_[s] = best_score (Solver.cpp line 80)
Memoize(memo, s, best_score) ==
    [t \in DOMAIN memo \cup {s} |-> IF t = s THEN best_score ELSE memo[t]]

\* A caller starts solve(s).
CallSolve(s) ==
    /\ stack = <<>>
    /\ stack' = <<SolveFrame(s)>>
    /\ ret' = NoRet
    /\ UNCHANGED <<config, throw_at_cache_, solver_state>>

\* A caller starts solve_aim(s, aim).
CallSolveAim(s, aim) ==
    /\ stack = <<>>
    /\ stack' = <<SolveAimFrame(s, aim)>>
    /\ ret' = NoRet
    /\ UNCHANGED <<config, throw_at_cache_, solver_state>>

\* A caller starts heat_map(s).
CallHeatMap(s) ==
    /\ stack = <<>>
    /\ stack' = <<HeatMapFrame(s)>>
    /\ ret' = NoRet
    /\ UNCHANGED <<config, throw_at_cache_, solver_state>>

\* solve, lines 56-59: state 0 is won.
SolveZero ==
    /\ Running("solve", "enter")
    /\ Top.s = 0
    /\ winable_' = winable_ \cup {0}
    /\ stack' = Pop
    /\ ret' = [fn |-> "solve", s |-> 0, value |-> <<RZero, Origin>>]
    /\ UNCHANGED <<config, throw_at_cache_, memoization_, heat_map_memo_>>

\* solve, lines 61-63: the memoized pair.
SolveMemoized ==
    /\ Running("solve", "enter")
    /\ Top.s # 0
    /\ Top.s \in DOMAIN memoization_
    /\ stack' = Pop
    /\ ret' = [fn |-> "solve", s |-> Top.s, value |-> memoization_[Top.s]]
    /\ UNCHANGED <<config, throw_at_cache_, solver_state>>

\* solve, lines 65-68: the loop over sample_aims_() starts.
SolveStart ==
    /\ Running("solve", "enter")
    /\ Top.s # 0
    /\ Top.s \notin DOMAIN memoization_
    /\ stack' = SetTop([Top EXCEPT !.pc = "loop",
                                   !.aims = SampleAims(target_bounds_, num_samples_),
                                   !.k = 1])
    /\ UNCHANGED <<config, throw_at_cache_, solver_state, ret>>

\* solve, line 69: the call of solve_aim(s, aim) for the next aim.
SolveCallAim ==
    /\ Running("solve", "loop")
    /\ Top.k <= Len(Top.aims)
    /\ stack' = CallFrom([Top EXCEPT !.pc = "wait"], SolveAimFrame(Top.s, Top.aims[Top.k]))
    /\ UNCHANGED <<config, throw_at_cache_, solver_state, ret>>

\* solve, lines 70-75: the score of the aim is compared with the best so far.
SolveTakeScore ==
    /\ Running("solve", "wait")
    /\ ret.fn = "solve_aim"
    /\ LET score == ret.value
           aim == Top.aims[Top.k]
       IN  stack' = SetTop([Top EXCEPT
                !.pc = "loop",
                !.k = Top.k + 1,
                !.best_score = IF Improves(score, Top.best_score)
                               THEN <<score, aim>> ELSE Top.best_score,
                !.is_winable = Top.is_winable \/ IsFinite(score)])
    /\ ret' = NoRet
    /\ UNCHANGED <<config, throw_at_cache_, solver_state>>

\* solve, lines 78-81: the result is stored and returned.
SolveFinish ==
    /\ Running("solve", "loop")
    /\ Top.k > Len(Top.aims)
    /\ winable_' = IF Top.is_winable THEN winable_ \cup {Top.s} ELSE winable_
    /\ memoization_' = Memoize(memoization_, Top.s, Top.best_score)
    /\ stack' = Pop
    /\ ret' = [fn |-> "solve", s |-> Top.s, value |-> Top.best_score]
    /\ UNCHANGED <<config, throw_at_cache_, heat_map_memo_>>

\* solve_aim, lines 27-29: game_.throw_at(aim, s).
SolveAimStart ==
    /\ Running("solve_aim", "enter")
    /\ \E ub \in UBChoices :
          stack' = SetTop([Top EXCEPT
              !.pc = "loop",
              !.states = ThrowAtStates(variant,
                            ThrowAtDistribution(throw_at_cache_, target_, integ, Top.aim),
                            Top.s, ub)])
    /\ throw_at_cache_' = CacheAfter(throw_at_cache_, target_, integ, Top.aim)
    /\ UNCHANGED <<config, solver_state, ret>>

\* solve_aim, lines 32-35: a successor equal to s adds to same_state_prob.
SolveAimSame ==
    /\ Running("solve_aim", "loop")
    /\ Top.k <= Len(Top.states)
    /\ SameState(Top.states[Top.k][1], Top.s)
    /\ stack' = SetTop([Top EXCEPT
           !.k = Top.k + 1,
           !.same_state_prob = Top.same_state_prob + Top.states[Top.k][2]])
    /\ UNCHANGED <<config, throw_at_cache_, solver_state, ret>>

\* solve_aim, line 36: the call of solve(state) for another successor.
SolveAimCallSolve ==
    /\ Running("solve_aim", "loop")
    /\ Top.k <= Len(Top.states)
    /\ ~SameState(Top.states[Top.k][1], Top.s)
    /\ stack' = CallFrom([Top EXCEPT !.pc = "wait"], SolveFrame(Top.states[Top.k][1]))
    /\ UNCHANGED <<config, throw_at_cache_, solver_state, ret>>

\* solve_aim, lines 36-43: the successor's score is used if it is winnable.
SolveAimTakeScore ==
    /\ Running("solve_aim", "wait")
    /\ ret.fn = "solve"
    /\ LET state == Top.states[Top.k][1]
           probability == Top.states[Top.k][2]
           state_score == ret.value[1]
       IN  stack' = SetTop(
               IF state \notin winable_
               THEN [Top EXCEPT !.pc = "loop", !.k = Top.k + 1,
                                !.same_state_prob = Top.same_state_prob + probability]
               ELSE [Top EXCEPT !.pc = "loop", !.k = Top.k + 1,
                                !.expected = RAdd(Top.expected,
                                                  RMul(state_score, Prob(probability)))])
    /\ ret' = NoRet
    /\ UNCHANGED <<config, throw_at_cache_, solver_state>>

\* solve_aim, lines 46-52: the value of the aim.
SolveAimFinish ==
    /\ Running("solve_aim", "loop")
    /\ Top.k > Len(Top.states)
    /\ stack' = Pop
    /\ ret' = [fn |-> "solve_aim", s |-> Top.s, aim |-> Top.aim,
               value |-> SolveAimResult(Top.expected, Top.same_state_prob)]
    /\ UNCHANGED <<config, throw_at_cache_, solver_state>>

\* ----------------------------------------------------------------- HeatMap

\* heat_map, lines 110-112: the memoized grid.
HeatMapMemoized ==
    /\ Running("heat_map", "enter")
    /\ Top.s \in DOMAIN heat_map_memo_
    /\ stack' = Pop
    /\ ret' = [fn |-> "heat_map", s |-> Top.s, value |-> heat_map_memo_[Top.s]]
    /\ UNCHANGED <<config, throw_at_cache_, solver_state>>

\* heat_map, lines 113-117: a zero-filled grid, the loops start; with no row
\* the inner loop is empty for every column.
HeatMapStart ==
    /\ Running("heat_map", "enter")
    /\ Top.s \notin DOMAIN heat_map_memo_
    /\ stack' = SetTop([Top EXCEPT !.pc = "loop",
                                    !.i = IF grid_height_ = 0 THEN grid_width_ ELSE 0,
                                    !.j = 0])
    /\ UNCHANGED <<config, throw_at_cache_, solver_state, ret>>

\* heat_map, lines 119-121: solver_.solve_aim(s, Vec2{x, y}) for cell (i, j).
HeatMapCallAim ==
    /\ Running("heat_map", "loop")
    /\ Top.i < grid_width_
    /\ stack' = CallFrom([Top EXCEPT !.pc = "wait"],
                         SolveAimFrame(Top.s, HeatMapAim(target_bounds_, Top.i, Top.j)))
    /\ UNCHANGED <<config, throw_at_cache_, solver_state, ret>>

\* heat_map, line 121: heat_map[j][i] receives the value; the inner loop is
\* over j, the outer one over i.
HeatMapTakeScore ==
    /\ Running("heat_map", "wait")
    /\ ret.fn = "solve_aim"
    /\ LET last == Top.j + 1 = grid_height_
       IN  stack' = SetTop([Top EXCEPT
               !.pc = "loop",
               !.heat_map[Top.j + 1][Top.i + 1] = ret.value,
               !.j = IF last THEN 0 ELSE Top.j + 1,
               !.i = IF last THEN Top.i + 1 ELSE Top.i])
    /\ ret' = NoRet
    /\ UNCHANGED <<config, throw_at_cache_, solver_state>>

\* heat_map, lines 125-126: the grid is stored and returned.
HeatMapFinish ==
    /\ Running("heat_map", "loop")
    /\ Top.i >= grid_width_
    /\ heat_map_memo_' =
           [t \in DOMAIN heat_map_memo_ \cup {Top.s} |->
               IF t = Top.s THEN Top.heat_map ELSE heat_map_memo_[t]]
    /\ stack' = Pop
    /\ ret' = [fn |-> "heat_map", s |-> Top.s, value |-> Top.heat_map]
    /\ UNCHANGED <<config, throw_at_cache_, memoization_, winable_>>

\* ----------------------------------------------------------------- Polygon

\* A test that closes the edge at its upper endpoint too.
ray_point_intersect_closed(ray_origin, seg_start, seg_end) ==
    LET lo == IF seg_start[2] > seg_end[2] THEN seg_end ELSE seg_start
        hi == IF seg_start[2] > seg_end[2] THEN seg_start ELSE seg_end
    IN  /\ hi[2] > lo[2]
        /\ ~(ray_origin[2] < lo[2] \/ ray_origin[2] > hi[2])
        /\ lo[1] * (hi[2] - lo[2]) + (ray_origin[2] - lo[2]) * (hi[1] - lo[1])
               >= ray_origin[1] * (hi[2] - lo[2])

\* Polygon::ray_point_intersect: the endpoints are swapped so that seg_start
\* is the lower one; x_intersect >= ray_origin.x is compared after
\* multiplication by seg_end.y - seg_start.y, which is positive once the
\* height test has passed.
ray_point_intersect(ray_origin, seg_start, seg_end) ==
    LET lo == IF seg_start[2] > seg_end[2] THEN seg_end ELSE seg_start
        hi == IF seg_start[2] > seg_end[2] THEN seg_start ELSE seg_end
    IN  /\ ~(ray_origin[2] < lo[2] \/ ray_origin[2] >= hi[2])
        /\ lo[1] * (hi[2] - lo[2]) + (ray_origin[2] - lo[2]) * (hi[1] - lo[1])
               >= ray_origin[1] * (hi[2] - lo[2])

\* The edge from vertex i to vertex (i + 1) % size, i counted from 1.
Edge(poly, i) == <<poly[i], poly[(i % Len(poly)) + 1]>>

\* Polygon::contains: the number of edges the ray meets is odd.
contains(poly, p) ==
    Cardinality({i \in 1 .. Len(poly) :
                    ray_point_intersect(p, Edge(poly, i)[1], Edge(poly, i)[2])}) % 2 = 1

\* A caller's call of contains(p) on the polygon.
Contains(p) ==
    /\ stack = <<>>
    /\ ret' = [fn |-> "contains", p |-> p, value |-> contains(vertices, p)]
    /\ UNCHANGED <<config, throw_at_cache_, solver_state, stack>>

\* -------------------------------------------------------------- quadrature

\* The tables and sums of the quadrature are decimal numbers of more digits
\* than an integer of the checker holds: a natural number is a sequence of
\* groups of four decimal digits, the least significant group first.
Group == 10000

\* The number of a sequence of groups with carry c added, every group below Group.
RECURSIVE Carry(_, _)
Carry(groups, c) ==
    IF groups = <<>>
    THEN (IF c = 0 THEN <<>> ELSE <<c % Group>> \o Carry(<<>>, c \div Group))
    ELSE <<(Head(groups) + c) % Group>> \o Carry(Tail(groups), (Head(groups) + c) \div Group)

\* The number without its leading zero groups.
RECURSIVE Trim(_)
Trim(a) ==
    IF a = <<>> \/ a[Len(a)] # 0 THEN a ELSE Trim(SubSeq(a, 1, Len(a) - 1))

BigOf(n) == Carry(<<>>, n)

BigAdd(a, b) ==
    LET n == IF Len(a) > Len(b) THEN Len(a) ELSE Len(b)
        at(x, i) == IF i <= Len(x) THEN x[i] ELSE 0
    IN  Trim(Carry([i \in 1 .. n |-> at(a, i) + at(b, i)], 0))

\* a * k for 0 <= k < Group.
BigTimesGroup(a, k) == Trim(Carry([i \in 1 .. Len(a) |-> a[i] * k], 0))

\* a * b by the schoolbook rule: group k of the product collects the
\* products a[i] * b[k + 1 - i], then the carries are passed on. The shorter
\* factor has at most 21 groups, so that no sum leaves 32 bits.
BigMul(a, b) ==
    IF b = <<>> \/ a = <<>> THEN <<>>
    ELSE LET RECURSIVE Column(_, _)
             Column(k, i) ==
                 IF i = 0 THEN 0
                 ELSE Column(k, i - 1)
                          + (IF k + 1 - i >= 1 /\ k + 1 - i <= Len(b) THEN a[i] * b[k + 1 - i] ELSE 0)
         IN  Trim(Carry([k \in 1 .. (Len(a) + Len(b) - 1) |-> Column(k, Len(a))], 0))

RECURSIVE BigPow(_, _)
BigPow(a, n) == IF n = 0 THEN BigOf(1) ELSE BigMul(a, BigPow(a, n - 1))

\* a < b, both without leading zero groups.
RECURSIVE BigLess(_, _)
BigLess(a, b) ==
    IF Len(a) # Len(b) THEN Len(a) < Len(b)
    ELSE IF a = <<>> THEN FALSE
    ELSE IF a[Len(a)] # b[Len(b)] THEN a[Len(a)] < b[Len(b)]
    ELSE BigLess(Trim(SubSeq(a, 1, Len(a) - 1)), Trim(SubSeq(b, 1, Len(b) - 1)))

\* a - b for a >= b.
BigSub(a, b) ==
    LET at(x, i) == IF i <= Len(x) THEN x[i] ELSE 0
        RECURSIVE Borrow(_, _)
        Borrow(i, c) ==
            IF i > Len(a) THEN <<>>
            ELSE LET v == a[i] - at(b, i) - c
                 IN  <<IF v < 0 THEN v + Group ELSE v>> \o Borrow(i + 1, IF v < 0 THEN 1 ELSE 0)
    IN  Trim(Borrow(1, 0))

\* |a - b|
BigDistance(a, b) == IF BigLess(a, b) THEN BigSub(b, a) ELSE BigSub(a, b)

\* The tables hold 15 decimals: a table entry v is kept as v * 10^15.
Decimals == 15

\* 10^Decimals, the number 1.0 at the scale of the tables.
BigOne == BigPow(BigOf(10), Decimals)

\* QUAD_NPTS
QUAD_NPTS == 7

\* quad_r[QUAD_NPTS], times 10^15
quad_r ==
    <<<<3333, 3333, 3333, 333>>,
      <<9770, 7178, 7158, 59>>,
      <<5115, 6410, 1420, 470>>,
      <<5115, 6410, 1420, 470>>,
      <<3087, 8535, 4269, 797>>,
      <<3456, 732, 2865, 101>>,
      <<3456, 732, 2865, 101>>>>

\* quad_s[QUAD_NPTS], times 10^15
quad_s ==
    <<<<3333, 3333, 3333, 333>>,
      <<5115, 6410, 1420, 470>>,
      <<5115, 6410, 1420, 470>>,
      <<9770, 7178, 7158, 59>>,
      <<3456, 732, 2865, 101>>,
      <<3456, 732, 2865, 101>>,
      <<3087, 8535, 4269, 797>>>>

\* A table in which the two triples carry each other's weight.
quad_w_exchanged ==
    <<<<0, 0, 0, 225>>,
      <<4827, 8054, 3918, 1259>>,
      <<4827, 8054, 3918, 1259>>,
      <<4827, 8054, 3918, 1259>>,
      <<8506, 5278, 9415, 1323>>,
      <<8506, 5278, 9415, 1323>>,
      <<8506, 5278, 9415, 1323>>>>

\* quad_w[QUAD_NPTS], times 10^15
quad_w ==
    <<<<0, 0, 0, 225>>,
      <<8506, 5278, 3941, 132>>,
      <<8506, 5278, 3941, 132>>,
      <<8506, 5278, 3941, 132>>,
      <<4827, 8054, 9391, 125>>,
      <<4827, 8054, 9391, 125>>,
      <<4827, 8054, 9391, 125>>>>

\* ref_to_physical, at scale 10^15: v0 * (1.0 - r - s) + v1 * r + v2 * s on
\* each axis, for vertices of natural coordinates.
ref_to_physical(v0, v1, v2, r, s) ==
    LET rest == BigSub(BigSub(BigOne, r), s)
        axis(k) == BigAdd(BigAdd(BigTimesGroup(rest, v0[k]), BigTimesGroup(r, v1[k])),
                          BigTimesGroup(s, v2[k]))
    IN  <<axis(1), axis(2)>>

\* Twice triangle_area(v0, v1, v2): the absolute value of the cross product.
TwiceTriangleArea(v0, v1, v2) ==
    Abs((v1[1] - v0[1]) * (v2[2] - v0[2]) - (v2[1] - v0[1]) * (v1[2] - v0[2]))

\* The density x^a * y^b at the point p, at scale 10^(15 * (a + b)).
MonomialDensity(a, b, p) == BigMul(BigPow(p[1], a), BigPow(p[2], b))

\* NormalDistributionQuadrature::integrate_probability for the density
\* x^a * y^b and offset (0, 0): twice the returned total, at scale
\* 10^(15 * (1 + a + b)).
integrate_probability(verts, a, b) ==
    IF Len(verts) < 3 THEN <<>>
    ELSE LET Triangle(i) ==
                 LET v0 == verts[1]
                     v1 == verts[i + 1]
                     v2 == verts[i + 2]
                     node(q) == BigMul(quad_w[q],
                                       MonomialDensity(a, b,
                                           ref_to_physical(v0, v1, v2, quad_r[q], quad_s[q])))
                     nodes == <<node(1), node(2), node(3), node(4), node(5), node(6), node(7)>>
                     RECURSIVE Sum(_)
                     Sum(q) == IF q = 0 THEN <<>> ELSE BigAdd(Sum(q - 1), nodes[q])
                 IN  BigTimesGroup(Sum(QUAD_NPTS), TwiceTriangleArea(v0, v1, v2))
             RECURSIVE Fan(_)
             Fan(i) == IF i = 0 THEN <<>> ELSE BigAdd(Fan(i - 1), Triangle(i))
         IN  Fan(Len(verts) - 2)

\* A caller's call of integrate_probability(region) on the polygon, for a
\* distribution whose density is x^a * y^b.
IntegrateProbability(a, b) ==
    /\ stack = <<>>
    /\ ret' = [fn |-> "integrate_probability", degree |-> <<a, b>>,
               value |-> integrate_probability(vertices, a, b)]
    /\ UNCHANGED <<config, throw_at_cache_, solver_state, stack>>

\* ------------------------------------------------------------ construction

\* Game::Game, Solver::Solver and HeatMapVisualizer::HeatMapVisualizer on the
\* arguments held by target_, num_samples_, grid_height_ and grid_width_: the
\* member initialisers store them, no test is made.
Construct ==
    /\ ~constructed
    /\ constructed' = TRUE
    /\ UNCHANGED <<wasm, vertices, variant, target_, target_bounds_, denom, integ, landing,
                   num_samples_, grid_height_, grid_width_, throw_at_cache_, solver_state,
                   stack, ret>>

\* The process was stopped by the division num_samples_ / height_samples.
Trapped == [fn |-> "SIGFPE"]

\* sample_aims_, line 13: num_samples_ / height_samples with height_samples = 0
\* is undefined; one outcome is the trap of the integer division (the other,
\* a run that goes on, is SolveStart on an empty list of aims).
SolveDivideByZero ==
    /\ Running("solve", "enter")
    /\ Top.s # 0
    /\ Top.s \notin DOMAIN memoization_
    /\ Isqrt(num_samples_) = 0
    /\ stack' = <<>>
    /\ ret' = Trapped
    /\ UNCHANGED <<config, throw_at_cache_, solver_state>>

\* ---------------------------------------------------------------- Game API

\* Game::throw_at(p, current_state), called directly.
ThrowAt(p, current_state, ub) ==
    /\ stack = <<>>
    /\ throw_at_cache_' = CacheAfter(throw_at_cache_, target_, integ, p)
    /\ ret' = [fn |-> "throw_at", s |-> current_state, aim |-> p,
               value |-> ThrowAtStates(variant,
                             ThrowAtDistribution(throw_at_cache_, target_, integ, p),
                             current_state, ub)]
    /\ UNCHANGED <<config, solver_state, stack>>

\* Game::throw_at_sample(p, current_state): the sampled landing point is
\* classified by Target::after_hit and the hit goes through handle_throw.
ThrowAtSample(p, current_state, hit_data, ub) ==
    /\ stack = <<>>
    /\ hit_data \in AfterHitOutcomes(target_)
    /\ ret' = [fn |-> "throw_at_sample", s |-> current_state, aim |-> p,
               hit |-> hit_data,
               value |-> HandleThrow(variant, current_state, hit_data, ub)]
    /\ UNCHANGED <<config, throw_at_cache_, solver_state, stack>>

\* --------------------------------------------------------- MaxPointsSolver

\* MaxPointsSolver::solve_aim(s, aim) on a game whose cache is cache: the sum
\* over the outcomes of diff * probability with diff = s - state, an int.
MaxPointsSolveAim(cache, s, aim) ==
    LET states == ThrowAtStates(variant, ThrowAtDistribution(cache, target_, integ, aim),
                                s, "wrap")
    IN  RSum([k \in DOMAIN states |->
                RMul(RInt(ToInt(ToUnsigned(s - states[k][1]))), Prob(states[k][2]))])

\* MaxPointsSolver::solve(s): the loop over sample_aims_() from
\* {LOWEST_SCORE, origin}; each solve_aim call fills the game's cache.
MaxPointsSolve(cache, s) ==
    LET aims == SampleAims(target_bounds_, num_samples_)
        RECURSIVE Loop(_, _)
        Loop(k, acc) ==
            IF k > Len(aims) THEN acc
            ELSE LET score == MaxPointsSolveAim(acc.cache, s, aims[k])
                 IN  Loop(k + 1,
                          [best_score |-> IF RLess(acc.best_score[1], score)
                                          THEN <<score, aims[k]>>
                                          ELSE acc.best_score,
                           cache |-> CacheAfter(acc.cache, target_, integ, aims[k])])
    IN  Loop(1, [best_score |-> <<RInt(LOWEST_SCORE), Origin>>, cache |-> cache])

\* A caller's call of MaxPointsSolver::solve_aim(s, aim).
PointsSolveAim(s, aim) ==
    /\ stack = <<>>
    /\ throw_at_cache_' = CacheAfter(throw_at_cache_, target_, integ, aim)
    /\ ret' = [fn |-> "max_points_solve_aim", s |-> s, aim |-> aim,
               value |-> MaxPointsSolveAim(throw_at_cache_, s, aim)]
    /\ UNCHANGED <<config, solver_state, stack>>

\* A caller's call of MaxPointsSolver::solve(s).
PointsSolve(s) ==
    /\ stack = <<>>
    /\ throw_at_cache_' = MaxPointsSolve(throw_at_cache_, s).cache
    /\ ret' = [fn |-> "max_points_solve", s |-> s,
               value |-> MaxPointsSolve(throw_at_cache_, s).best_score]
    /\ UNCHANGED <<config, solver_state, stack>>

\* ------------------------------------------------------- the WASM wrapper

\* null, where the other values are strings
Null == "null"

\* null, where the other values are handles of objects or sample counts
NullRef == 0

\* The wrapper before its first call: wasm.js lines 13-23, and an empty heap.
NoWasm ==
    [_target |-> NullRef, _dist |-> NullRef, _game |-> NullRef, _solver |-> NullRef,
     _heatVis |-> NullRef, _targetContent |-> Null, _cachedCov |-> Null, _cachedMode |-> Null,
     _cachedSolverType |-> Null, _cachedSamples |-> NullRef, heap |-> <<>>]

\* A call of the wrapper in progress: the wrapper, whether the call has
\* thrown, whether it has used a deleted object, and the classes of the
\* objects it has deleted.
StartCall(w) == [w |-> w, threw |-> FALSE, used_deleted |-> FALSE, deleted |-> {}]

\* The handle of a new object: the first one no object has.
NewHandle(heap) ==
    CHOOSE h \in 1 .. (Cardinality(DOMAIN heap) + 1) :
        h \notin DOMAIN heap /\ \A k \in 1 .. (h - 1) : k \in DOMAIN heap

\* name = value
SetVar(r, name, value) == IF r.threw THEN r ELSE [r EXCEPT !.w[name] = value]

\* name?.delete(): nothing on null; embind throws on a handle already deleted.
Delete(r, name) ==
    LET h == r.w[name]
    IN  IF r.threw \/ h = NullRef THEN r
        ELSE IF r.w.heap[h].deleted
        THEN [r EXCEPT !.threw = TRUE, !.used_deleted = TRUE]
        ELSE [r EXCEPT !.w.heap[h].deleted = TRUE,
                       !.deleted = @ \cup {r.w.heap[h].class}]

\* name = new module.class(from..., arg): embind throws on a null and on a
\* deleted argument; the object keeps references to the objects in from.
New(r, name, class, from, arg) ==
    IF r.threw THEN r
    ELSE IF \E n \in DOMAIN from : from[n] = NullRef
    THEN [r EXCEPT !.threw = TRUE]
    ELSE IF \E n \in DOMAIN from : r.w.heap[from[n]].deleted
    THEN [r EXCEPT !.threw = TRUE, !.used_deleted = TRUE]
    ELSE LET h == NewHandle(r.w.heap)
         IN  [r EXCEPT !.w.heap = (h :> [class |-> class, deleted |-> FALSE,
                                         from |-> from, arg |-> arg]) @@ @,
                       !.w[name] = h]

\* The object h, or an object it holds a reference to, directly or through
\* others, is deleted.
RECURSIVE Dangling(_, _)
Dangling(heap, h) ==
    \/ h = NullRef
    \/ h \notin DOMAIN heap
    \/ heap[h].deleted
    \/ \E n \in DOMAIN heap[h].from : Dangling(heap, heap[h].from[n])

\* A call into the object name: module.solverSolve(_solver, ...),
\* _heatVis.heat_map(...), _game.get_target_bounds().
Use(r, name) ==
    IF r.threw THEN r
    ELSE IF r.w[name] = NullRef THEN [r EXCEPT !.threw = TRUE]
    ELSE IF Dangling(r.w.heap, r.w[name]) THEN [r EXCEPT !.used_deleted = TRUE]
    ELSE r

\* _cleanup(), wasm.js lines 65-76.
cleanup(r) ==
    LET r1 == SetVar(Delete(r, "_heatVis"), "_heatVis", NullRef)
        r2 == SetVar(Delete(r1, "_solver"), "_solver", NullRef)
        r3 == SetVar(Delete(r2, "_game"), "_game", NullRef)
        r4 == SetVar(Delete(r3, "_dist"), "_dist", NullRef)
        r5 == SetVar(Delete(r4, "_target"), "_target", NullRef)
    IN  SetVar(SetVar(SetVar(SetVar(r5, "_cachedCov", Null), "_cachedMode", Null),
                      "_cachedSolverType", Null), "_cachedSamples", NullRef)

\* needGame with the change of the distribution forgotten.
NeedGameModeOnly(needDist, gameMode, cachedMode) == gameMode # cachedMode

\* needGame, wasm.js line 88.
NeedGame(needDist, gameMode, cachedMode) == needDist \/ gameMode # cachedMode

GameClass(gameMode) ==
    IF gameMode = "finishOnAny" THEN "GameFinishOnAny" ELSE "GameFinishOnDouble"

SolverClass(solverType) ==
    IF solverType = "maxPoints" THEN "MaxPointsSolver" ELSE "SolverMinThrows"

\* _ensureObjects(covFlat, gameMode, solverType, samples), wasm.js lines
\* 85-116. A covariance is written as its key covFlat.join(',').
ensureObjects(r, covFlat, gameMode, solverType, samples) ==
    LET covKey == covFlat
        needDist == covKey # r.w._cachedCov
        needGame == NeedGame(needDist, gameMode, r.w._cachedMode)
        needSolver == \/ needGame
                      \/ solverType # r.w._cachedSolverType
                      \/ samples # r.w._cachedSamples
        r1 == IF needDist
              THEN SetVar(New(Delete(r, "_dist"), "_dist", "NormalDistributionQuadrature",
                              <<>>, covFlat),
                          "_cachedCov", covKey)
              ELSE r
        g1 == SetVar(Delete(r1, "_heatVis"), "_heatVis", NullRef)
        g2 == SetVar(Delete(g1, "_solver"), "_solver", NullRef)
        g3 == Delete(g2, "_game")
        r2 == IF needGame
              THEN SetVar(New(g3, "_game", GameClass(gameMode),
                              <<g3.w._target, g3.w._dist>>, gameMode),
                          "_cachedMode", gameMode)
              ELSE r1
        s1 == SetVar(Delete(r2, "_heatVis"), "_heatVis", NullRef)
        s2 == Delete(s1, "_solver")
    IN  IF needSolver
        THEN SetVar(SetVar(New(s2, "_solver", SolverClass(solverType), <<s2.w._game>>, samples),
                           "_cachedSolverType", solverType),
                    "_cachedSamples", samples)
        ELSE r2

\* The storage of a deleted object that no variable and no live object refers
\* to is forgotten, and the objects are numbered anew in their order.
Collect(w) ==
    LET named == {w._target, w._dist, w._game, w._solver, w._heatVis}
        kept == {h \in DOMAIN w.heap :
                    \/ ~w.heap[h].deleted
                    \/ h \in named
                    \/ \E k \in DOMAIN w.heap :
                           ~w.heap[k].deleted /\ h \in Range(w.heap[k].from)}
        renamed(h) == IF h \in kept THEN Cardinality({k \in kept : k <= h}) ELSE NullRef
        moved(n) == CHOOSE h \in kept : renamed(h) = n
    IN  [w EXCEPT !._target = renamed(@), !._dist = renamed(@), !._game = renamed(@),
                  !._solver = renamed(@), !._heatVis = renamed(@),
                  !.heap = [n \in 1 .. Cardinality(kept) |->
                               [w.heap[moved(n)] EXCEPT
                                   !.from = [m \in DOMAIN @ |-> renamed(@[m])]]]]

\* The call returns or throws: the wrapper it leaves and what it did.
Return(fn, args, r) ==
    /\ wasm' = Collect(r.w)
    /\ ret' = [fn |-> fn, args |-> args, threw |-> r.threw,
               used_deleted |-> r.used_deleted, deleted |-> r.deleted]
    /\ UNCHANGED <<vertices, constructed, variant, target_, target_bounds_, denom, integ,
                   landing, num_samples_, grid_height_, grid_width_, throw_at_cache_,
                   solver_state, stack>>

\* loadTarget(url), wasm.js lines 48-58, from the point where the text has
\* been fetched.
LoadTarget(text) ==
    LET r == StartCall(wasm)
    IN  Return("loadTarget", <<text>>,
               IF text = wasm._targetContent THEN r
               ELSE New(cleanup(SetVar(r, "_targetContent", text)), "_target", "Target", <<>>, text))

\* solve(stateVal, covFlat, gameMode, solverType, samples), wasm.js lines 123-130.
WasmSolve(covFlat, gameMode, solverType, samples) ==
    Return("solve", <<covFlat, gameMode, solverType, samples>>,
           Use(ensureObjects(StartCall(wasm), covFlat, gameMode, solverType, samples), "_solver"))

\* heatmap(stateVal, covFlat, gameMode, solverType, samples, resolution),
\* wasm.js lines 135-165; the resolution is kept as the visualizer's _res.
WasmHeatmap(covFlat, gameMode, solverType, samples, resolution) ==
    LET r1 == ensureObjects(StartCall(wasm), covFlat, gameMode, solverType, samples)
        stale == \/ r1.w._heatVis = NullRef
                 \/ r1.w.heap[r1.w._heatVis].arg # resolution
        r2 == IF ~r1.threw /\ stale
              THEN New(Delete(r1, "_heatVis"), "_heatVis", "HeatMapVisualizer",
                       <<r1.w._solver>>, resolution)
              ELSE r1
    IN  Return("heatmap", <<covFlat, gameMode, solverType, samples, resolution>>,
               Use(Use(r2, "_heatVis"), "_game"))

\* The arguments of the wrapper runs.
TargetTexts == {"target A", "target B"}

CovFlats == {"1,0,0,1", "2,0,0,2"}

GameModes == {"finishOnAny", "finishOnDouble"}

SolverTypes == {"minThrows", "maxPoints"}

SampleCounts == {1, NumSamples}

Resolutions == {GridHeight, GridHeight + 1}

\* ------------------------------------------------------------ configurations

\* The regions the beds' shapes cut the plane into: a region is named by the
\* set of the beds (indices in iteration order) whose shape contains it.
Regions(beds) == SUBSET (1 .. Len(beds))

\* The laws of the landing point over the regions: masses that add up to the
\* whole.
Landings(beds, resolution) ==
    {l \in [Regions(beds) -> 0 .. resolution] : SumOver(l, Regions(beds)) = resolution}

\* The landing law when no two beds overlap and bed b has mass masses[b].
DisjointLanding(beds, masses, resolution) ==
    [r \in Regions(beds) |->
        IF r = {} THEN resolution - SumOver(masses, DOMAIN masses)
        ELSE IF Cardinality(r) = 1 THEN masses[CHOOSE b \in r : TRUE]
        ELSE 0]

\* What an exact integrator returns for each bed: the mass of its whole shape.
ExactMasses(beds, law) ==
    [b \in 1 .. Len(beds) |-> SumOver(law, {r \in Regions(beds) : b \in r})]

\* Target::after_hit for a point of region r: the first bed in iteration order
\* that contains it, the miss if none does.
AfterHit(beds, r) ==
    IF r = {} THEN Miss
    ELSE beds[CHOOSE b \in r : \A c \in r : b <= c]

\* The masses an integrator returns for the beds of a target at one aim: a
\* level for each bed, at most the whole mass together.
MassVectors(beds, levels, resolution) ==
    LET RECURSIVE Total(_, _)
        Total(m, b) == IF b = 0 THEN 0 ELSE Total(m, b - 1) + m[b]
    IN  {m \in [1 .. Len(beds) -> levels] : Total(m, Len(beds)) <= resolution}

\* Targets of the solver runs: beds score at most MaxState points.
SolverTargets ==
    {<<HitData(DOUBLE, -2), HitData(NORMAL, -1)>>,
     <<HitData(DOUBLE, -1), HitData(NORMAL, -2)>>}

\* Targets of the game runs: up to two beds of any type and any score an int holds.
GameTargets ==
    LET Hits == {HitData(t, d) : t \in HitTypes, d \in IntMin .. 0}
    IN  {<<h>> : h \in Hits} \cup {<<g, h>> : g \in Hits, h \in {HitData(DOUBLE, -1)}}

\* The targets of the runs with a heat map.
HeatTargets == {<<HitData(NORMAL, -1)>>, <<HitData(DOUBLE, -1)>>}

Aims == DOMAIN integ

\* The state after construction of a game, a solver on it and a visualizer of
\* height rows and width columns on the solver.
InitGrid(targets, aims, resolution, levels, height, width) ==
    /\ wasm = NoWasm
    /\ vertices = <<>>
    /\ constructed = TRUE
    /\ variant \in Variants
    /\ target_ \in targets
    /\ target_bounds_ \in BoundsChoices
    /\ num_samples_ = NumSamples
    /\ grid_height_ = height
    /\ grid_width_ = width
    /\ denom = resolution
    /\ integ \in [aims -> MassVectors(target_, levels, resolution)]
    /\ landing = [p \in aims |-> DisjointLanding(target_, integ[p], resolution)]
    /\ throw_at_cache_ = <<>>
    /\ memoization_ = <<>>
    /\ winable_ = {}
    /\ heat_map_memo_ = <<>>
    /\ stack = <<>>
    /\ ret = NoRet

InitWith(targets, aims, resolution, levels) ==
    InitGrid(targets, aims, resolution, levels, GridHeight, GridWidth)

Init == InitWith(SolverTargets, GridAims(target_bounds_), Denom, 0 .. Denom)

InitGame == InitWith(GameTargets, GameAims(target_bounds_), Denom, 0 .. Denom)

\* The steps of the solve and solve_aim calls in progress.
Step ==
    \/ SolveZero
    \/ SolveMemoized
    \/ SolveStart
    \/ SolveCallAim
    \/ SolveTakeScore
    \/ SolveFinish
    \/ SolveAimStart
    \/ SolveAimSame
    \/ SolveAimCallSolve
    \/ SolveAimTakeScore
    \/ SolveAimFinish

\* The steps of the heat_map calls in progress.
HeatMapStep ==
    \/ HeatMapMemoized
    \/ HeatMapStart
    \/ HeatMapCallAim
    \/ HeatMapTakeScore
    \/ HeatMapFinish

Next ==
    \/ \E s \in 0 .. MaxState : CallSolve(s)
    \/ \E s \in 0 .. MaxState : \E aim \in Aims : CallSolveAim(s, aim)
    \/ Step

Spec == Init /\ [][Next]_vars

NextGame ==
    \/ \E p \in Aims : \E s \in State : \E ub \in UBChoices :
           ThrowAt(p, s, ub)
    \/ \E p \in Aims : \E s \in State : \E ub \in UBChoices :
       \E h \in AfterHitOutcomes(target_) :
           ThrowAtSample(p, s, h, ub)

SpecGame == InitGame /\ [][NextGame]_vars

\* Targets of the runs on the hit distribution: two beds that may share their
\* HitData and whose shapes may overlap.
DistTargets ==
    LET Hits == {HitData(NORMAL, -1), HitData(DOUBLE, -1), HitData(NORMAL, -2)}
    IN  {<<g, h>> : g \in Hits, h \in Hits}

\* A game whose beds may overlap, with an exact integrator.
InitLanding(targets, aims) ==
    /\ wasm = NoWasm
    /\ vertices = <<>>
    /\ constructed = TRUE
    /\ variant \in Variants
    /\ target_ \in targets
    /\ target_bounds_ \in BoundsChoices
    /\ num_samples_ = NumSamples
    /\ grid_height_ = GridHeight
    /\ grid_width_ = GridWidth
    /\ denom = Denom
    /\ landing \in [aims -> Landings(target_, Denom)]
    /\ integ = [p \in DOMAIN landing |-> ExactMasses(target_, landing[p])]
    /\ throw_at_cache_ = <<>>
    /\ memoization_ = <<>>
    /\ winable_ = {}
    /\ heat_map_memo_ = <<>>
    /\ stack = <<>>
    /\ ret = NoRet

InitDist == InitLanding(DistTargets, GameAims(target_bounds_))

\* The target of the solver runs with overlapping beds: two beds of score 1.
OverlapTargets == {<<HitData(NORMAL, -1), HitData(DOUBLE, -1)>>}

\* The solver on a game whose beds may overlap.
InitOverlap == InitLanding(OverlapTargets, GridAims(target_bounds_))

SpecOverlap == InitOverlap /\ [][Next]_vars

\* The calls of throw_at and throw_at_sample; the sampled point lies in a
\* region of positive mass.
NextDist ==
    \/ \E p \in Aims : \E s \in 0 .. MaxState : ThrowAt(p, s, "wrap")
    \/ \E p \in Aims : \E s \in 0 .. MaxState :
       \E r \in Regions(target_) :
           /\ landing[p][r] > 0
           /\ ThrowAtSample(p, s, AfterHit(target_, r), "wrap")

SpecDist == InitDist /\ [][NextDist]_vars

\* NormalDistributionRandom::integrate_probability draws fresh samples on
\* every call: what the next call returns for an aim and a bed changes.
Resample ==
    /\ stack = <<>>
    /\ integ' \in [Aims -> MassVectors(target_, 0 .. denom, denom)]
    /\ integ' # integ
    /\ UNCHANGED <<wasm, vertices, constructed, variant, target_, target_bounds_, denom,
                   landing, num_samples_, grid_height_, grid_width_, throw_at_cache_,
                   solver_state, stack, ret>>

\* A game on a Monte-Carlo integrator, asked about two aims.
InitCache == InitWith(HeatTargets, GridAims(target_bounds_), Denom, 0 .. Denom)

NextCache ==
    \/ \E p \in Aims : \E s \in 0 .. MaxState : ThrowAt(p, s, "wrap")
    \/ Resample

SpecCache == InitCache /\ [][NextCache]_vars

\* The solver and a heat map visualizer on it, on one-bed targets.
InitHeat == InitWith(HeatTargets, AllAims(target_bounds_), Denom, 0 .. Denom)

NextHeat ==
    \/ \E s \in 0 .. MaxState : CallSolve(s)
    \/ \E s \in 0 .. MaxState : CallHeatMap(s)
    \/ Step
    \/ HeatMapStep

SpecHeat == InitHeat /\ [][NextHeat]_vars

\* The solver and a visualizer of RowsGridHeight rows on it: heat_map calls only.
InitRows ==
    InitGrid(HeatTargets, AllAims(target_bounds_), Denom, 0 .. Denom,
             RowsGridHeight, GridWidth)

NextRows ==
    \/ \E s \in 0 .. MaxState : CallHeatMap(s)
    \/ Step
    \/ HeatMapStep

SpecRows == InitRows /\ [][NextRows]_vars

\* The constructor arguments of the runs that start before construction: a
\* target of no bed or one bed, sample counts and grid dimensions from 0.
ConfigTargets == {<<>>, <<HitData(NORMAL, -1)>>}

\* The aims the solver and the visualizer ask the integrator about.
ConfigAims ==
    (IF num_samples_ = 0 THEN {} ELSE GridAims(target_bounds_))
        \cup HeatMapAims(target_bounds_)

InitConfig ==
    /\ wasm = NoWasm
    /\ vertices = <<>>
    /\ constructed = FALSE
    /\ variant \in Variants
    /\ target_ \in ConfigTargets
    /\ target_bounds_ \in BoundsChoices
    /\ num_samples_ \in 0 .. NumSamples
    /\ grid_height_ \in 0 .. GridHeight
    /\ grid_width_ \in 0 .. GridWidth
    /\ denom = Denom
    /\ integ \in [ConfigAims -> MassVectors(target_, 0 .. Denom, Denom)]
    /\ landing = [p \in ConfigAims |-> DisjointLanding(target_, integ[p], Denom)]
    /\ throw_at_cache_ = <<>>
    /\ memoization_ = <<>>
    /\ winable_ = {}
    /\ heat_map_memo_ = <<>>
    /\ stack = <<>>
    /\ ret = NoRet

NextConfig ==
    \/ Construct
    \/ /\ constructed
       /\ ret # Trapped
       /\ \/ \E s \in 0 .. MaxState : CallSolve(s)
          \/ \E s \in 0 .. MaxState : CallHeatMap(s)
    \/ Step
    \/ HeatMapStep
    \/ SolveDivideByZero

SpecConfig == InitConfig /\ [][NextConfig]_vars

\* The points of the geometry runs.
Lattice == {Vec2(x, y) : x \in 0 .. MaxCoord, y \in 0 .. MaxCoord}

\* Twice the signed area of the triangle a, b, c.
Cross(a, b, c) == (b[1] - a[1]) * (c[2] - a[2]) - (b[2] - a[2]) * (c[1] - a[1])

\* The polygons of the geometry runs: the triangles of non-zero area and the
\* axis-parallel rectangles on the lattice, all of them convex.
PolygonChoices ==
    {tri \in Lattice \X Lattice \X Lattice : Cross(tri[1], tri[2], tri[3]) # 0}
        \cup {<<Vec2(c[1][1], c[1][2]), Vec2(c[2][1], c[1][2]),
                Vec2(c[2][1], c[2][2]), Vec2(c[1][1], c[2][2])>> :
                  c \in {d \in Lattice \X Lattice : d[1][1] < d[2][1] /\ d[1][2] < d[2][2]}}

InitGeometry ==
    /\ wasm = NoWasm
    /\ vertices \in PolygonChoices
    /\ constructed = TRUE
    /\ variant = "FinishOnAny"
    /\ target_ = <<>>
    /\ target_bounds_ \in BoundsChoices
    /\ num_samples_ = NumSamples
    /\ grid_height_ = GridHeight
    /\ grid_width_ = GridWidth
    /\ denom = Denom
    /\ integ = <<>>
    /\ landing = <<>>
    /\ throw_at_cache_ = <<>>
    /\ memoization_ = <<>>
    /\ winable_ = {}
    /\ heat_map_memo_ = <<>>
    /\ stack = <<>>
    /\ ret = NoRet

NextGeometry == \E p \in Lattice : Contains(p)

SpecGeometry == InitGeometry /\ [][NextGeometry]_vars

\* The regions of the quadrature runs: the axis-parallel rectangles of the
\* lattice, the right triangles with their legs on the axes, all of them
\* convex, and the vertex lists of fewer than three vertices.
QuadratureRegions ==
    {<<Vec2(c[1][1], c[1][2]), Vec2(c[2][1], c[1][2]),
       Vec2(c[2][1], c[2][2]), Vec2(c[1][1], c[2][2])>> :
         c \in {d \in Lattice \X Lattice : d[1][1] < d[2][1] /\ d[1][2] < d[2][2]}}
        \cup {<<Vec2(0, 0), Vec2(w, 0), Vec2(0, h)>> : w \in 1 .. MaxCoord, h \in 1 .. MaxCoord}
        \cup {<<>>} \cup {<<a>> : a \in Lattice} \cup (Lattice \X Lattice)

\* The degree up to which the rule is said to be exact.
MaxDegree == 5

InitQuadrature ==
    /\ wasm = NoWasm
    /\ vertices \in QuadratureRegions
    /\ constructed = TRUE
    /\ variant = "FinishOnAny"
    /\ target_ = <<>>
    /\ target_bounds_ \in BoundsChoices
    /\ num_samples_ = NumSamples
    /\ grid_height_ = GridHeight
    /\ grid_width_ = GridWidth
    /\ denom = Denom
    /\ integ = <<>>
    /\ landing = <<>>
    /\ throw_at_cache_ = <<>>
    /\ memoization_ = <<>>
    /\ winable_ = {}
    /\ heat_map_memo_ = <<>>
    /\ stack = <<>>
    /\ ret = NoRet

\* One call a run: the integral depends on the region and the density alone.
NextQuadrature ==
    /\ ret = NoRet
    /\ \E a \in 0 .. MaxDegree : \E b \in 0 .. (MaxDegree - a) : IntegrateProbability(a, b)

SpecQuadrature == InitQuadrature /\ [][NextQuadrature]_vars

\* The target bounds of the runs that enumerate the aims: every span is a
\* multiple of 24, so that the cell centres of up to 4 cells are whole numbers.
AimBounds ==
    {[min |-> Vec2(x, y), max |-> Vec2(x + w, y + h)] :
        x \in {-24, 0}, y \in {-24, 0}, w \in {24, 48}, h \in {24, 48}}

InitAims ==
    /\ wasm = NoWasm
    /\ vertices = <<>>
    /\ constructed = TRUE
    /\ variant = "FinishOnAny"
    /\ target_ = <<>>
    /\ target_bounds_ \in AimBounds
    /\ num_samples_ \in 1 .. MaxSamples
    /\ grid_height_ = GridHeight
    /\ grid_width_ = GridWidth
    /\ denom = Denom
    /\ integ = <<>>
    /\ landing = <<>>
    /\ throw_at_cache_ = <<>>
    /\ memoization_ = <<>>
    /\ winable_ = {}
    /\ heat_map_memo_ = <<>>
    /\ stack = <<>>
    /\ ret = NoRet

\* Solver::sample_aims_() as solve calls it.
CallSampleAims ==
    /\ stack = <<>>
    /\ ret' = [fn |-> "sample_aims_", value |-> SampleAims(target_bounds_, num_samples_)]
    /\ UNCHANGED <<config, throw_at_cache_, solver_state, stack>>

NextAims == CallSampleAims

SpecAims == InitAims /\ [][NextAims]_vars

\* Runs in which solve, solve_aim and heat_map are called in any order on one
\* solver and its visualizer.
NextHistory ==
    \/ \E s \in 0 .. MaxState : CallSolve(s)
    \/ \E s \in 0 .. MaxState : \E aim \in Aims : CallSolveAim(s, aim)
    \/ \E s \in 0 .. MaxState : CallHeatMap(s)
    \/ Step
    \/ HeatMapStep

\* One double bed, hit from every aim with no mass, the smallest mass or
\* all of it.
InitHistory ==
    InitWith({<<HitData(DOUBLE, -1)>>}, AllAims(target_bounds_), Denom, {0, 1, Denom})

SpecHistory == InitHistory /\ [][NextHistory]_vars

InitWasm == InitWith({<<>>}, {}, Denom, {0})

NextWasm ==
    \/ \E text \in TargetTexts : LoadTarget(text)
    \/ \E covFlat \in CovFlats, gameMode \in GameModes, solverType \in SolverTypes,
          samples \in SampleCounts :
              WasmSolve(covFlat, gameMode, solverType, samples)
    \/ \E covFlat \in CovFlats, gameMode \in GameModes, solverType \in SolverTypes,
          samples \in SampleCounts, resolution \in Resolutions :
              WasmHeatmap(covFlat, gameMode, solverType, samples, resolution)

SpecWasm == InitWasm /\ [][NextWasm]_vars

\* Targets of the runs with masses near EPSILON.
TinyTargets == {<<HitData(NORMAL, -1)>>, <<HitData(DOUBLE, -1)>>}

\* The solver on an integrator whose masses are 0, one part in TinyDenom, or
\* everything.
InitTiny == InitWith(TinyTargets, GridAims(target_bounds_), TinyDenom, {0, 1, TinyDenom})

SpecTiny == InitTiny /\ [][Next]_vars

\* The target of the runs that compare the two games: a double 1 and a single 1.
FineTargets == {<<HitData(DOUBLE, -2), HitData(NORMAL, -1)>>}

\* The solver on an integrator of resolution FineDenom.
InitFine == InitWith(FineTargets, GridAims(target_bounds_), FineDenom, 0 .. FineDenom)

NextFine ==
    \/ \E s \in 0 .. MaxState : CallSolve(s)
    \/ Step

SpecFine == InitFine /\ [][NextFine]_vars

\* The runs of the MaxPointsSolver.
NextPoints ==
    \/ \E s \in 0 .. MaxState : PointsSolve(s)
    \/ \E s \in 0 .. MaxState : \E aim \in Aims : PointsSolveAim(s, aim)

SpecPoints == Init /\ [][NextPoints]_vars

\* hit_data.diff + static_cast<StateDifference>(current_state) overflows int.
Overflows(current_state, hit_data) ==
    hit_data.diff + ToInt(current_state) \notin StateDifference

\* The game calls whose int arithmetic has defined behaviour.
NextGameDefined ==
    \/ \E p \in Aims : \E s \in State :
           /\ \A h \in AfterHitOutcomes(target_) : ~Overflows(s, h)
           /\ ThrowAt(p, s, "wrap")
    \/ \E p \in Aims : \E s \in State : \E h \in AfterHitOutcomes(target_) :
           /\ ~Overflows(s, h)
           /\ ThrowAtSample(p, s, h, "wrap")

SpecGameDefined == InitGame /\ [][NextGameDefined]_vars

\* ------------------------------------------------- claims: game transitions

\* The hit distribution a completed throw_at call was built from.
HitsOfRet == throw_at_cache_[ret.aim]

\* The successor the finish-on-any rule gives, over the mathematical integers.
FinishOnAnyRule(s, diff) == IF s + diff < 0 THEN s ELSE s + diff

\* The successor the finish-on-double rule gives, over the mathematical integers.
FinishOnDoubleRule(s, hit) ==
    LET t == s + hit.diff
    IN  IF t = 0 THEN (IF hit.type = DOUBLE THEN 0 ELSE s)
        ELSE IF t < 0 THEN s
        ELSE t

\* C7: under GameFinishOnAny the successor of s for a hit of score delta diff
\* is s when s + diff < 0 and s + diff otherwise (a miss leaves s unchanged),
\* in throw_at and in throw_at_sample.
C7_FinishOnAnySuccessor ==
    variant = "FinishOnAny" =>
        /\ ret.fn = "throw_at" =>
              \A k \in DOMAIN ret.value :
                  ret.value[k][1] = FinishOnAnyRule(ret.s, HitsOfRet[k][1].diff)
        /\ ret.fn = "throw_at_sample" =>
              ret.value = FinishOnAnyRule(ret.s, ret.hit.diff)

\* C8: under GameFinishOnDouble, with s' = s + hit.diff, the successor is 0
\* when s' = 0 on a double, s when s' = 0 on another type, s when s' < 0, and
\* s' in every other case.
C8_FinishOnDoubleSuccessor ==
    variant = "FinishOnDouble" =>
        /\ ret.fn = "throw_at" =>
              \A k \in DOMAIN ret.value :
                  ret.value[k][1] = FinishOnDoubleRule(ret.s, HitsOfRet[k][1])
        /\ ret.fn = "throw_at_sample" =>
              ret.value = FinishOnDoubleRule(ret.s, ret.hit)

\* C9: under GameFinishOnDouble state 1 is never a successor of a state
\* s >= 2, in throw_at and in throw_at_sample (reaching 1 is a bust).
C9_StateOneIsBust ==
    (variant = "FinishOnDouble" /\ ret.fn \in {"throw_at", "throw_at_sample"} /\ ret.s >= 2) =>
        /\ ret.fn = "throw_at" => \A k \in DOMAIN ret.value : ret.value[k][1] # 1
        /\ ret.fn = "throw_at_sample" => ret.value # 1

\* C10: with every bed's diff <= 0, each successor listed by throw_at and each
\* state returned by throw_at_sample lies in 0 .. s, under both variants.
C10_SuccessorsInRange ==
    /\ ret.fn = "throw_at" =>
          \A k \in DOMAIN ret.value : ret.value[k][1] \in 0 .. ret.s
    /\ ret.fn = "throw_at_sample" => ret.value \in 0 .. ret.s

\* C10 witness: a throw_at from a state whose int conversion is negative that
\* lists a bust (s + diff < 0 kept at s) and a scoring hit (a smaller state).
C10_Witness ==
    /\ ret.fn = "throw_at"
    /\ \E k \in DOMAIN ret.value :
          ret.s + HitsOfRet[k][1].diff < 0 /\ ret.value[k][1] = ret.s
    /\ \E k \in DOMAIN ret.value : ret.value[k][1] < ret.s

\* ------------------------------------------------------ claims: the solver

\* The successor law of aim at state s: what game_.throw_at(aim, s) returns.
SuccessorLaw(s, aim) ==
    ThrowAtStates(variant, ComputeHitDistribution(target_, integ[aim]), s, "wrap")

\* V(t): the value solve(t) returns for an evaluated state t.
ValueOf(t) == IF t = 0 THEN RZero ELSE memoization_[t][1]

\* p_self: the mass that stays at s plus the mass that goes to successors
\* outside the winnable set.
PSelf(s, aim) ==
    LET law == SuccessorLaw(s, aim)
    IN  RSum([k \in DOMAIN law |->
                IF law[k][1] = s \/ law[k][1] \notin winable_
                THEN Prob(law[k][2]) ELSE RZero])

\* The sum over the winnable successors s' # s of P(s -> s') * V(s').
FutureThrows(s, aim) ==
    LET law == SuccessorLaw(s, aim)
    IN  RSum([k \in DOMAIN law |->
                IF law[k][1] # s /\ law[k][1] \in winable_
                THEN RMul(Prob(law[k][2]), ValueOf(law[k][1])) ELSE RZero])

\* E_a of the recurrence: INFINITE_SCORE when p_self >= 1 - EPSILON, else
\* (1 + sum) / (1 - p_self).
ExpectedThrows(s, aim) ==
    IF RLeq(RSub(ROne, EPSILON), PSelf(s, aim)) THEN RInfinite
    ELSE RDiv(RAdd(ROne, FutureThrows(s, aim)), RSub(ROne, PSelf(s, aim)))

\* The candidate aims in enumeration order.
CandidateAims == SampleAims(target_bounds_, num_samples_)

\* The pair the recurrence gives for s: the least E_a with the first aim that
\* attains it, or (INFINITE_SCORE, origin) when no aim is below INFINITE_SCORE.
BestOfGrid(s) ==
    LET E(k) == ExpectedThrows(s, CandidateAims[k])
        K == DOMAIN CandidateAims
    IN  IF \A k \in K : ~RLess(E(k), RInfinite) THEN <<RInfinite, Origin>>
        ELSE LET first == CHOOSE k \in K :
                              /\ \A j \in K : RLeq(E(k), E(j))
                              /\ \A j \in K : j < k => RLess(E(k), E(j))
             IN  <<E(first), CandidateAims[first]>>

\* C1: for s > 0, solve(s) returns the minimum of solve_aim(s, a) over the
\* grid aims with the first aim in enumeration order that attains it, and
\* (INFINITE_SCORE, origin) when no aim is below INFINITE_SCORE.
C1_SolveReturnsFirstMinimum ==
    (ret.fn = "solve" /\ ret.s > 0) => ret.value = BestOfGrid(ret.s)

\* C1 witness: solve returned for a state at which two grid aims tie on a
\* value below INFINITE_SCORE, and returned the first of them.
C1_Witness ==
    /\ ret.fn = "solve"
    /\ ret.s > 0
    /\ RLess(ret.value[1], RInfinite)
    /\ ret.value[2] = CandidateAims[1]
    /\ ExpectedThrows(ret.s, CandidateAims[2]) = ret.value[1]

\* C2: for s > 0, solve_aim(s, aim) returns INFINITE_SCORE when
\* p_self >= 1 - EPSILON and (1 + sum over winnable successors s' # s of
\* P(s -> s') * V(s')) / (1 - p_self) otherwise.
C2_SolveAimFormula ==
    (ret.fn = "solve_aim" /\ ret.s > 0) => ret.value = ExpectedThrows(ret.s, ret.aim)

\* C2 witness: solve_aim returned a finite value for an aim that stays at s
\* with positive probability and reaches a winnable successor other than 0.
C2_Witness ==
    /\ ret.fn = "solve_aim"
    /\ ret.s > 0
    /\ RLess(ret.value, RInfinite)
    /\ RLess(RZero, PSelf(ret.s, ret.aim))
    /\ RLess(RZero, FutureThrows(ret.s, ret.aim))

\* Some aim of the grid moves s, with mass above EPSILON in total, to smaller
\* states from which state 0 is reached in the same way.
RECURSIVE EscapesToZero(_)
EscapesToZero(s) ==
    \/ s = 0
    \/ \E k \in DOMAIN CandidateAims :
          LET law == SuccessorLaw(s, CandidateAims[k])
          IN  RLess(EPSILON,
                    RSum([j \in DOMAIN law |->
                            IF law[j][1] < s /\ EscapesToZero(law[j][1])
                            THEN Prob(law[j][2]) ELSE RZero]))

\* At least one grid aim yields a value below INFINITE_SCORE at s.
SomeAimFinite(s) ==
    \E k \in DOMAIN CandidateAims :
        RLess(ExpectedThrows(s, CandidateAims[k]), RInfinite)

RECURSIVE CanReachZero(_)
CanReachZero(s) ==
    \/ s = 0
    \/ \E k \in DOMAIN CandidateAims :
          LET law == SuccessorLaw(s, CandidateAims[k])
          IN  \E j \in DOMAIN law :
                 law[j][2] > 0 /\ law[j][1] < s /\ CanReachZero(law[j][1])

\* The target has a double bed of score 1.
HasDoubleOne == \E b \in DOMAIN target_ : target_[b] = HitData(DOUBLE, -1)

\* C4: when state 0 is not reachable from s, solve(s) returns INFINITE_SCORE
\* and s is not added to the winnable set; under GameFinishOnDouble solve(1)
\* returns INFINITE_SCORE for every target without a double bed of score 1;
\* solve(0) returns value 0.
C4_UnreachableIsInfinite ==
    ret.fn = "solve" =>
        /\ ~CanReachZero(ret.s) =>
              ret.value[1] = RInfinite /\ ret.s \notin winable_
        /\ (ret.s = 1 /\ variant = "FinishOnDouble" /\ ~HasDoubleOne) =>
              ret.value[1] = RInfinite
        /\ ret.s = 0 => ret.value[1] = RZero

\* C4 witness: solve returned INFINITE_SCORE for a state that moves with
\* positive probability to a smaller state but never to state 0.
C4_Witness ==
    /\ ret.fn = "solve"
    /\ ret.s >= 2
    /\ ~CanReachZero(ret.s)
    /\ \E k \in DOMAIN CandidateAims :
          \E j \in DOMAIN SuccessorLaw(ret.s, CandidateAims[k]) :
             LET e == SuccessorLaw(ret.s, CandidateAims[k])[j]
             IN  e[1] < ret.s /\ e[2] > 0
    /\ ret.value[1] = RInfinite
    /\ ret.s \notin winable_

\* The frames of solve on the stack, bottom first.
SolveFrames == SelectSeq(stack, LAMBDA f : f.fn = "solve")

\* Every frame above a frame of solve(s) is solve_aim(s, _), every frame above
\* a frame of solve_aim(s, _) is solve(s') with s' < s, no state has two frames
\* of solve, and under solve(s) at most s calls of solve are nested.
StackDiscipline ==
    /\ \A i \in 1 .. (Len(stack) - 1) :
          /\ stack[i].fn = "solve" =>
                stack[i + 1].fn = "solve_aim" /\ stack[i + 1].s = stack[i].s
          /\ stack[i].fn = "solve_aim" =>
                stack[i + 1].fn = "solve" /\ stack[i + 1].s < stack[i].s
    /\ \A i, j \in DOMAIN SolveFrames :
          i # j => SolveFrames[i].s # SolveFrames[j].s
    /\ SolveFrames # <<>> => Len(SolveFrames) - 1 <= SolveFrames[1].s

\* A frame on top of the stack that waits for a callee has the callee's value.
CalleeReturned ==
    /\ Running("solve", "wait") => ret.fn = "solve_aim"
    /\ Running("solve_aim", "wait") => ret.fn = "solve"

\* The most steps solve(s) and solve_aim(s, _) take from their first line to
\* their return, for a grid of A aims and laws of at most L successors.
RECURSIVE SolveBudget(_)
SolveAimBudget(s) ==
    2 + (Len(target_) + 1) * (IF s = 0 THEN 1 ELSE 2 + SolveBudget(s - 1))

SolveBudget(s) ==
    IF s = 0 THEN 1 ELSE 2 + Len(CandidateAims) * (2 + SolveAimBudget(s))

\* The steps a frame still takes itself, its callee's steps left out.
Remaining(f) ==
    IF f.fn = "solve"
    THEN CASE f.pc = "enter" -> SolveBudget(f.s)
           [] f.pc = "loop" ->
                (Len(f.aims) - f.k + 1) * (2 + SolveAimBudget(f.s)) + 1
           [] f.pc = "wait" ->
                (Len(f.aims) - f.k) * (2 + SolveAimBudget(f.s)) + 2
    ELSE LET c == IF f.s = 0 THEN 1 ELSE 2 + SolveBudget(f.s - 1)
         IN  CASE f.pc = "enter" -> SolveAimBudget(f.s)
               [] f.pc = "loop" -> (Len(f.states) - f.k + 1) * c + 1
               [] f.pc = "wait" -> (Len(f.states) - f.k) * c + 2

\* The steps the calls in progress still take: a natural number.
RECURSIVE StepsLeft(_)
StepsLeft(frames) ==
    IF frames = <<>> THEN 0 ELSE Remaining(Head(frames)) + StepsLeft(Tail(frames))

\* C5: for targets whose beds all have diff <= 0 and either variant, solve(s)
\* terminates: every call made while evaluating s is solve(s') with s' < s, so
\* solve is never re-entered for a state in progress and at most s calls are
\* nested; every step of a call in progress lowers a natural-number bound on
\* the steps left.
C5_SolveTerminates ==
    /\ [](StackDiscipline /\ CalleeReturned)
    /\ [][Step => StepsLeft(stack') < StepsLeft(stack)]_vars

\* C5 witness: solve(MaxState) has recursed through every smaller state down
\* to solve(0).
C5_Witness ==
    /\ Len(stack) = 2 * MaxState + 1
    /\ stack[1].fn = "solve"
    /\ stack[1].s = MaxState
    /\ Top.fn = "solve"
    /\ Top.s = 0

\* C6: once solve(s) has stored the memo entry of s, no later step of a solve,
\* solve_aim or heat_map call changes or removes it, and every solve(s) that
\* returns for s > 0 returns the stored pair, so every later solve(s) returns
\* the pair of the first call.
C6_MemoEntriesStable ==
    /\ [][\A t \in DOMAIN memoization_ :
             t \in DOMAIN memoization_' /\ memoization_'[t] = memoization_[t]]_vars
    /\ []((ret.fn = "solve" /\ ret.s > 0) =>
             (ret.s \in DOMAIN memoization_ /\ ret.value = memoization_[ret.s]))

\* C6 witness: solve(s) returns the memoized pair of a winnable state after a
\* heat map was computed and while another state's entry is stored too.
C6_Witness ==
    /\ ret.fn = "solve"
    /\ ret.s > 0
    /\ ret.s \in winable_
    /\ ret.value = memoization_[ret.s]
    /\ heat_map_memo_ # <<>>
    /\ \E t \in DOMAIN memoization_ : t > ret.s

\* ------------------------------------------------ claims: hit distribution

\* The total mass, in units of 1/denom, of a sequence of (outcome, mass) pairs.
TotalMass(pairs) == SumOver([k \in DOMAIN pairs |-> pairs[k][2]], DOMAIN pairs)

\* C11: for every aim and state, the probabilities of the sequence returned by
\* throw_at(aim, s), and of the hit distribution it is built from, sum to 1.
C11_ProbabilitiesSumToOne ==
    ret.fn = "throw_at" =>
        /\ TotalMass(ret.value) = denom
        /\ TotalMass(throw_at_cache_[ret.aim]) = denom

\* C11 witness: throw_at returned three outcomes, two beds of different HitData
\* hit with positive probability and the miss.
C11_Witness ==
    /\ ret.fn = "throw_at"
    /\ Len(ret.value) = 3
    /\ \E j, k \in DOMAIN ret.value :
          /\ j # k
          /\ HitsOfRet[j][1] # Miss /\ ret.value[j][2] > 0
          /\ HitsOfRet[k][1] # Miss /\ ret.value[k][2] > 0

\* The larger of two integers.
Max(a, b) == IF a >= b THEN a ELSE b

\* C12: every probability of the hit distribution and of the sequence returned
\* by throw_at lies in [0, 1], and the miss entry is max(0, 1 - total) plus the
\* masses of the beds whose HitData is the miss's, total being the sum of the
\* per-bed masses, whatever masses in [0, 1] the integrator returns.
C12_ProbabilitiesInUnitInterval ==
    ret.fn = "throw_at" =>
        /\ \A k \in DOMAIN ret.value : ret.value[k][2] \in 0 .. denom
        /\ \A k \in DOMAIN HitsOfRet :
              /\ HitsOfRet[k][2] \in 0 .. denom
              /\ HitsOfRet[k][1] = Miss =>
                    HitsOfRet[k][2] =
                        Max(0, denom - SumOver(integ[ret.aim], DOMAIN integ[ret.aim]))
                        + BedsMass(target_, integ[ret.aim], Miss)

\* C13: the hit distribution of an aim is strictly increasing in HitData order
\* (type, then diff), so no key appears twice, and the beds that share a
\* HitData are merged into one entry whose probability is the sum of their
\* masses.
C13_HitDistributionSortedAndMerged ==
    ret.fn = "throw_at" =>
        /\ \A k \in 1 .. (Len(HitsOfRet) - 1) :
              HitLess(HitsOfRet[k][1], HitsOfRet[k + 1][1])
        /\ \A h \in Range(target_) \ {Miss} :
              \E k \in DOMAIN HitsOfRet :
                  /\ HitsOfRet[k][1] = h
                  /\ HitsOfRet[k][2] = BedsMass(target_, integ[ret.aim], h)

\* C13 witness: a distribution in which two beds of the same HitData, both hit
\* with positive probability, share the one entry before the miss.
C13_Witness ==
    /\ ret.fn = "throw_at"
    /\ Len(target_) = 2
    /\ target_[1] = target_[2]
    /\ integ[ret.aim][1] > 0
    /\ integ[ret.aim][2] > 0
    /\ Len(HitsOfRet) = 2
    /\ HitsOfRet[1][2] = integ[ret.aim][1] + integ[ret.aim][2]

\* The mass of the hits of the distribution that handle_throw maps from s to t.
MassInto(v, dist, s, t) ==
    SumOver([k \in DOMAIN dist |->
                IF HandleThrow(v, s, dist[k][1], "wrap") = t THEN dist[k][2] ELSE 0],
            DOMAIN dist)

\* C14: in the sequence returned by throw_at(aim, s), under either variant,
\* each successor state appears at most once and its probability is the sum
\* of the probabilities of all hits that map to it.
C14_SuccessorsMerged ==
    ret.fn = "throw_at" =>
        /\ \A j, k \in DOMAIN ret.value :
              j # k => ret.value[j][1] # ret.value[k][1]
        /\ \A k \in DOMAIN ret.value :
              ret.value[k][2] = MassInto(variant, HitsOfRet, ret.s, ret.value[k][1])

\* C15: the hit distribution first computed for an aim is cached and neither
\* recomputed nor changed by a later call for that or another aim, also when
\* the integrator's results change from call to call: throw_at always returns
\* the successors of the cached distribution, so two calls for the same aim
\* rest on identical sequences.
C15_HitCacheConsistent ==
    /\ [][\A p \in DOMAIN throw_at_cache_ :
             p \in DOMAIN throw_at_cache_' /\ throw_at_cache_'[p] = throw_at_cache_[p]]_vars
    /\ [](ret.fn = "throw_at" =>
             /\ ret.aim \in DOMAIN throw_at_cache_
             /\ ret.value = ThrowAtStates(variant, throw_at_cache_[ret.aim], ret.s, "wrap"))

\* C15 witness: throw_at returned the successors of the cached distribution of
\* an aim for which the integrator would now return other masses, while the
\* other aim is cached too.
C15_Witness ==
    /\ ret.fn = "throw_at"
    /\ DOMAIN throw_at_cache_ = Aims
    /\ Cardinality(Aims) = 2
    /\ throw_at_cache_[ret.aim] # ComputeHitDistribution(target_, integ[ret.aim])
    /\ ret.value = ThrowAtStates(variant, throw_at_cache_[ret.aim], ret.s, "wrap")

\* The probability, in units of 1/denom, that Target::after_hit classifies the
\* landing point of a throw at aim p as h.
ClassifiedAs(p, h) ==
    SumOver(landing[p], {r \in Regions(target_) : AfterHit(target_, r) = h})

\* C16: for every aim and every HitData h, the probability the hit
\* distribution assigns to h equals the probability that Target::after_hit
\* classifies the landing point as h (first bed in iteration order, else the
\* miss), also when beds overlap.
C16_DistributionMatchesClassification ==
    ret.fn = "throw_at" =>
        \A k \in DOMAIN HitsOfRet :
            HitsOfRet[k][2] = ClassifiedAs(ret.aim, HitsOfRet[k][1])

\* ------------------------------------------------- claims: solver values

\* C17: for every winnable state s > 0 the value solve(s) returns is at least
\* 1, and every value below INFINITE_SCORE that solve_aim(s, aim) returns for
\* s > 0 is at least 1.
C17_ValueAtLeastOne ==
    /\ (ret.fn = "solve" /\ ret.s > 0 /\ ret.s \in winable_) =>
          RLeq(ROne, ret.value[1])
    /\ (ret.fn = "solve_aim" /\ ret.s > 0 /\ RLess(ret.value, RInfinite)) =>
          RLeq(ROne, ret.value)

\* ------------------------------------------------ claims: the two games

\* SolverMinThrows::solve_aim on a solver that holds the results of the
\* states below s: solved[t] is memoization_[t] with the membership of t in
\* winable_.
solve_aim(v, s, aim, solved) ==
    LET states == ThrowAtStates(v, ComputeHitDistribution(target_, integ[aim]), s, "wrap")
        Stays(k) == \/ SameState(states[k][1], s)
                    \/ ~solved[states[k][1]].is_winable
        same_state_prob ==
            SumOver([k \in DOMAIN states |-> IF Stays(k) THEN states[k][2] ELSE 0],
                    DOMAIN states)
        expected ==
            RSum([k \in DOMAIN states |->
                    IF Stays(k) THEN RZero
                    ELSE RMul(solved[states[k][1]].best_score[1], Prob(states[k][2]))])
    IN  SolveAimResult(expected, same_state_prob)

\* SolverMinThrows::solve on that solver: the pair it returns and whether it
\* inserts s into winable_.
solve(v, s, solved) ==
    IF s = 0 THEN [best_score |-> <<RZero, Origin>>, is_winable |-> TRUE]
    ELSE LET aims == CandidateAims
             RECURSIVE Loop(_, _)
             Loop(k, acc) ==
                 IF k > Len(aims) THEN acc
                 ELSE LET score == solve_aim(v, s, aims[k], solved)
                      IN  Loop(k + 1,
                               [best_score |-> IF Improves(score, acc.best_score)
                                               THEN <<score, aims[k]>>
                                               ELSE acc.best_score,
                                is_winable |-> acc.is_winable \/ IsFinite(score)])
         IN  Loop(1, [best_score |-> <<RInfinite, Origin>>, is_winable |-> FALSE])

\* What a fresh solver on game variant v holds for the states 0 .. s once
\* solve has evaluated them.
RECURSIVE Solved(_, _)
Solved(v, s) ==
    IF s = 0 THEN 0 :> solve(v, 0, <<>>)
    ELSE LET solved == Solved(v, s - 1)
         IN  solved @@ (s :> solve(v, s, solved))

\* The value of state s under each of the two games, for the target,
\* distribution and grid of the run.
ValueOnAny(s) == Solved("FinishOnAny", s)[s].best_score[1]

ValueOnDouble(s) == Solved("FinishOnDouble", s)[s].best_score[1]

\* Whether s is winnable under each of the two games.
WinnableOnAny(s) == Solved("FinishOnAny", s)[s].is_winable

WinnableOnDouble(s) == Solved("FinishOnDouble", s)[s].is_winable

AnyNondecreasing(s) ==
    LET solved == Solved("FinishOnAny", s)
    IN  \A t \in 1 .. s : RLeq(solved[t - 1].best_score[1], solved[t].best_score[1])

InBounds(aim, bounds) ==
    /\ bounds.min[1] <= aim[1] /\ aim[1] <= bounds.max[1]
    /\ bounds.min[2] <= aim[2] /\ aim[2] <= bounds.max[2]

\* C19: the aim solve(s) returns lies inside the target bounds, for every
\* state s, winnable or not.
C19_AimInBounds ==
    ret.fn = "solve" => InBounds(ret.value[2], target_bounds_)

\* C19, amended: for a winnable state s > 0 the aim solve(s) returns is a grid
\* aim and lies inside the target bounds; for s = 0 and for an unwinnable
\* state it is the origin, inside the bounds or not.
C19_AimInBoundsWhenWinnable ==
    ret.fn = "solve" =>
        IF ret.s > 0 /\ ret.s \in winable_
        THEN /\ ret.value[2] \in GridAims(target_bounds_)
             /\ InBounds(ret.value[2], target_bounds_)
        ELSE ret.value[2] = Origin

\* C19 witness: solve returned for a winnable state s > 0 the last aim of
\* the grid, and the origin is outside the target bounds.
C19_Witness ==
    /\ ret.fn = "solve"
    /\ ret.s > 0
    /\ ret.s \in winable_
    /\ ret.value[2] = CandidateAims[Len(CandidateAims)]
    /\ ~InBounds(Origin, target_bounds_)

\* --------------------------------------------- claims: the MaxPointsSolver

\* The expected score reduction of aim at state s: the sum over the outcomes
\* (s', p) of the successor law of (s - s') * p.
ExpectedReduction(s, aim) ==
    LET law == SuccessorLaw(s, aim)
    IN  RSum([k \in DOMAIN law |-> RMul(RInt(s - law[k][1]), Prob(law[k][2]))])

\* C20: MaxPointsSolver.solve(s) returns the maximum over the grid aims of
\* the expected score reduction with the first grid aim that attains it,
\* also when every aim's expected reduction is 0.
C20_MaxPointsReturnsFirstMaximum ==
    ret.fn = "max_points_solve" =>
        \E k \in DOMAIN CandidateAims :
            /\ ret.value = <<ExpectedReduction(ret.s, CandidateAims[k]), CandidateAims[k]>>
            /\ \A j \in DOMAIN CandidateAims :
                   /\ RLeq(ExpectedReduction(ret.s, CandidateAims[j]), ret.value[1])
                   /\ j < k => RLess(ExpectedReduction(ret.s, CandidateAims[j]), ret.value[1])

\* The value MaxPointsSolver::solve_aim(s, aim) has on a game of variant v
\* over the target and distribution of the run.
ReductionOn(v, s, aim) ==
    LET states == ThrowAtStates(v, ComputeHitDistribution(target_, integ[aim]), s, "wrap")
    IN  RSum([k \in DOMAIN states |->
                RMul(RInt(ToInt(ToUnsigned(s - states[k][1]))), Prob(states[k][2]))])

\* C21: the value MaxPointsSolver.solve_aim(s, aim) returns is the value it
\* has on a GameFinishOnAny and the value it has on a GameFinishOnDouble over
\* the same target and distribution.
C21_GreedyIgnoresDoubleRule ==
    ret.fn = "max_points_solve_aim" =>
        /\ ret.value = ReductionOn(variant, ret.s, ret.aim)
        /\ ReductionOn("FinishOnAny", ret.s, ret.aim) =
               ReductionOn("FinishOnDouble", ret.s, ret.aim)

\* ---------------------------------------------------- claims: the heat map

\* The value solver.solve_aim(s, aim) has on the solver of the run.
SolveAimValue(s, aim) ==
    solve_aim(variant, s, aim, IF s = 0 THEN <<>> ELSE Solved(variant, s - 1))

\* C22: heat_map(s) returns a matrix of grid_height_ rows and grid_width_
\* columns whose cell [r][c] is solve_aim(s, aim) for the aim of row r counted
\* from the top and column c counted from the left:
\* aim = bounds.min + ((c + 0.5)/C, (R - r - 0.5)/R) * (bounds.max - bounds.min).
C22_HeatMapRowsTopDown ==
    LET bounds == target_bounds_
        aim(r, c) ==
            Vec2(CellCentre(bounds.min[1], bounds.max[1], c, grid_width_),
                 bounds.min[2] +
                     ((bounds.max[2] - bounds.min[2]) * (2 * (grid_height_ - r) - 1))
                         \div (2 * grid_height_))
    IN  ret.fn = "heat_map" =>
            /\ Len(ret.value) = grid_height_
            /\ \A r \in 1 .. grid_height_ :
                  /\ Len(ret.value[r]) = grid_width_
                  /\ \A c \in 1 .. grid_width_ :
                        ret.value[r][c] = SolveAimValue(ret.s, aim(r - 1, c - 1))

\* --------------------------------------------------- claims: construction

\* C23: a game over a target with zero beds, a solver with a sample count of
\* zero and a visualizer with a grid dimension of zero are never constructed,
\* and no later call stops in the division of the aim grid.
C23_ConfigurationErrorsRejected ==
    /\ constructed =>
          /\ Len(target_) > 0
          /\ num_samples_ > 0
          /\ grid_height_ > 0
          /\ grid_width_ > 0
    /\ ret # Trapped

\* ------------------------------------------------------- claims: geometry

\* The edges of the polygon, as pairs of endpoints.
Edges == {Edge(vertices, i) : i \in 1 .. Len(vertices)}

Horizontal(e) == e[1][2] = e[2][2]

\* p lies on the horizontal edge e.
OnHorizontalEdge(p, e) ==
    /\ Horizontal(e)
    /\ p[2] = e[1][2]
    /\ \/ (e[1][1] <= p[1] /\ p[1] <= e[2][1])
       \/ (e[2][1] <= p[1] /\ p[1] <= e[1][1])

\* The lower and the upper endpoint of a non-horizontal edge.
LowerEnd(e) == IF e[1][2] < e[2][2] THEN e[1] ELSE e[2]

UpperEnd(e) == IF e[1][2] < e[2][2] THEN e[2] ELSE e[1]

RECURSIVE Factorial(_)
Factorial(n) == IF n = 0 THEN 1 ELSE n * Factorial(n - 1)

RECURSIVE Power(_, _)
Power(x, n) == IF n = 0 THEN 1 ELSE x * Power(x, n - 1)

\* Twice the integral of x^a * y^b over the region, as a fraction <<n, d>>:
\* over the rectangle [x0, x1] x [y0, y1] the integral is
\* (x1^(a+1) - x0^(a+1)) * (y1^(b+1) - y0^(b+1)) / ((a + 1) * (b + 1)), over
\* the triangle (0,0), (w,0), (0,h) it is w^(a+1) * h^(b+1) * a! * b! / (a + b + 2)!.
TwiceIntegral(verts, a, b) ==
    IF Len(verts) = 4
    THEN <<2 * (Power(verts[3][1], a + 1) - Power(verts[1][1], a + 1))
             * (Power(verts[3][2], b + 1) - Power(verts[1][2], b + 1)),
           (a + 1) * (b + 1)>>
    ELSE IF Len(verts) = 3
    THEN <<2 * Power(verts[2][1], a + 1) * Power(verts[3][2], b + 1)
             * Factorial(a) * Factorial(b),
           Factorial(a + b + 2)>>
    ELSE <<0, 1>>

\* The returned total times d and the integral times d, both doubled and at
\* the scale of the returned total.
ReturnedTimesDen == BigTimesGroup(ret.value, TwiceIntegral(vertices, ret.degree[1], ret.degree[2])[2])

IntegralTimesDen ==
    BigMul(BigOf(TwiceIntegral(vertices, ret.degree[1], ret.degree[2])[1]),
           BigPow(BigOne, 1 + ret.degree[1] + ret.degree[2]))

C26_CandidateAimsRowMajor ==
    ret.fn = "sample_aims_" =>
        LET aims == ret.value
            lo == target_bounds_.min
            hi == target_bounds_.max
            k == Isqrt(num_samples_)
            columns == num_samples_ \div k
        IN  /\ Len(aims) = k * columns
            /\ Range(aims) =
                   {Vec2(lo[1] + ((hi[1] - lo[1]) * (2 * c + 1)) \div (2 * columns),
                         lo[2] + ((hi[2] - lo[2]) * (2 * r + 1)) \div (2 * k)) :
                        c \in 0 .. (columns - 1), r \in 0 .. (k - 1)}
            /\ Cardinality(Range(aims)) = k * columns
            /\ \A n \in 1 .. Len(aims) :
                   /\ lo[1] < aims[n][1] /\ aims[n][1] < hi[1]
                   /\ lo[2] < aims[n][2] /\ aims[n][2] < hi[2]
            /\ \A m \in 1 .. Len(aims) : \A n \in m .. Len(aims) : \A p \in n .. Len(aims) :
                   aims[m][2] = aims[p][2] => aims[n][2] = aims[m][2]

\* ------------------------------------------------ claims: the winnable set

\* solve_aim is at line 38, about to test winable_.contains(state) for the
\* successor whose solve has just returned.
ConsultsWinable == Running("solve_aim", "wait") /\ ret.fn = "solve"

\* The successor the test is about.
Consulted == Top.states[Top.k][1]

\* solve(state) is in progress: one of the frames is an unfinished solve(state).
InProgress(state) == \E n \in 1 .. Len(stack) : stack[n].fn = "solve" /\ stack[n].s = state

\* C27: whenever solve_aim consults the winnable set for a successor
\* s' # s, the evaluation of s' is complete (s' = 0 or s' has a memo entry)
\* and not in progress; and the winnable set only grows.
C27_WinableReadAfterEvaluation ==
    /\ [](ConsultsWinable =>
             /\ Consulted # Top.s
             /\ ret.s = Consulted
             /\ Consulted = 0 \/ Consulted \in DOMAIN memoization_
             /\ ~InProgress(Consulted))
    /\ [][winable_ \subseteq winable_']_vars

\* C27 witness: the winnable set, which already holds a state other than 0,
\* is consulted for a successor other than 0 that is not in it.
C27_Witness ==
    /\ ConsultsWinable
    /\ Consulted # 0
    /\ Consulted \notin winable_
    /\ winable_ \ {0} # {}

\* ------------------------------------------------------- claims: the memo

\* C28: for every state s with a memo entry the stored value is at most
\* INFINITE_SCORE, it is below INFINITE_SCORE exactly if s is in the
\* winnable set, and the stored aim is the origin whenever the value is
\* INFINITE_SCORE; state 0 never gets a memo entry.
C28_MemoEntriesWellFormed ==
    /\ 0 \notin DOMAIN memoization_
    /\ \A s \in DOMAIN memoization_ :
           /\ RLeq(memoization_[s][1], RInfinite)
           /\ RLess(memoization_[s][1], RInfinite) <=> s \in winable_
           /\ memoization_[s][1] = RInfinite => memoization_[s][2] = Origin

\* C28 witness: the memo holds an entry of value INFINITE_SCORE and an entry
\* of a smaller value with an aim other than the origin.
C28_Witness ==
    /\ \E s \in DOMAIN memoization_ : memoization_[s][1] = RInfinite
    /\ \E s \in DOMAIN memoization_ :
           RLess(memoization_[s][1], RInfinite) /\ memoization_[s][2] # Origin

\* ---------------------------------------------------- claims: the history

\* C29: the (value, aim) pair solve(s) returns is the pair a freshly
\* constructed solver on the same configuration returns, whatever solve,
\* solve_aim and heat_map calls were made before on the same solver and game.
C29_SolveIndependentOfHistory ==
    ret.fn = "solve" => ret.value = Solved(variant, ret.s)[ret.s].best_score

\* C29 witness: solve(s) has returned a finite value to its caller on a
\* solver whose visualizer holds the heat map of s, whose memo holds s and
\* whose cache holds the throws of several aims.
C29_Witness ==
    /\ stack = <<>>
    /\ ret.fn = "solve"
    /\ ret.s > 0
    /\ ret.s \in DOMAIN heat_map_memo_
    /\ ret.s \in DOMAIN memoization_
    /\ RLess(ret.value[1], RInfinite)

\* ------------------------------------------------ claims: the WASM wrapper

SolverClasses == {"SolverMinThrows", "MaxPointsSolver"}

\* The live solvers and visualizers on the heap of the wrapper w.
LiveSolvers(w) ==
    {h \in DOMAIN w.heap :
        ~w.heap[h].deleted /\ w.heap[h].class \in SolverClasses \cup {"HeatMapVisualizer"}}

\* The game the solver or visualizer h was built from.
GameOf(w, h) ==
    IF w.heap[h].class = "HeatMapVisualizer"
    THEN w.heap[w.heap[h].from[1]].from[1]
    ELSE w.heap[h].from[1]

\* The solver is built from the live game, the game from the live
\* distribution and target, and none of them is deleted.
SolverFromLiveObjects(w) ==
    /\ ~Dangling(w.heap, w._solver)
    /\ w.heap[w._solver].from = <<w._game>>
    /\ w.heap[w._game].from = <<w._target, w._dist>>
    /\ w.heap[w._target].arg = w._targetContent

\* The wrapper's objects are the ones the arguments of the call ask for.
BuiltAsRequested(w, covFlat, gameMode, solverType, samples) ==
    /\ w.heap[w._dist].arg = covFlat
    /\ w.heap[w._game].class = GameClass(gameMode)
    /\ w.heap[w._solver].class = SolverClass(solverType)
    /\ w.heap[w._solver].arg = samples

\* The visualizer is built from the live solver with the resolution asked for.
VisualizerFromLiveSolver(w, resolution) ==
    /\ ~Dangling(w.heap, w._heatVis)
    /\ w.heap[w._heatVis].from = <<w._solver>>
    /\ w.heap[w._heatVis].arg = resolution

\* The solver or visualizer h is built, through its game, from the target
\* text content and, where given, from the covariance and the game mode of
\* the call.
BuiltFromValues(w, h, content, call) ==
    LET game == w.heap[GameOf(w, h)]
    IN  /\ w.heap[game.from[1]].arg = content
        /\ call.fn \in {"solve", "heatmap"} =>
               /\ w.heap[game.from[2]].arg = call.args[1]
               /\ game.arg = call.args[2]

\* C30: after any sequence of loadTarget, solve and heatmap calls the solver
\* a call used was built from the live game, the game from the live
\* distribution and target, the visualizer from the live solver with the
\* requested resolution; no call uses a deleted object; and every solver and
\* visualizer that is left after a call is built from the target, the
\* covariance and the game mode of that call, those built from other values
\* being deleted.
C30_WrapperObjectsLive ==
    ret.fn \in {"loadTarget", "solve", "heatmap"} =>
        /\ ~ret.used_deleted
        /\ \A h \in LiveSolvers(wasm) :
               /\ h \in {wasm._solver, wasm._heatVis}
               /\ ~Dangling(wasm.heap, h)
               /\ BuiltFromValues(wasm, h, wasm._targetContent, ret)
        /\ ret.fn \in {"solve", "heatmap"} /\ ~ret.threw =>
               /\ SolverFromLiveObjects(wasm)
               /\ BuiltAsRequested(wasm, ret.args[1], ret.args[2], ret.args[3], ret.args[4])
        /\ ret.fn = "heatmap" /\ ~ret.threw => VisualizerFromLiveSolver(wasm, ret.args[5])

\* C30 witness: a heatmap call has returned a grid after deleting the
\* distribution, and with it a game, a solver and a visualizer built from it.
C30_Witness ==
    /\ ret.fn = "heatmap"
    /\ ~ret.threw
    /\ {"NormalDistributionQuadrature", "HeatMapVisualizer"} \subseteq ret.deleted
    /\ ret.deleted \cap SolverClasses # {}
    /\ wasm._heatVis # NullRef

====
